---------------------------- MODULE Spec2Model ----------------------------
(***************************************************************************)
(* Model of the desktop-file repair engine of appimage_fixer               *)
(* (src/appimage_fixer/core.py, config.py, database.py).                   *)
(*                                                                         *)
(* Text is modelled as a sequence of atoms.  An atom is one of the         *)
(* character strings the code's prefix tests, substring tests and regular  *)
(* expressions tell apart; the string a sequence stands for is the         *)
(* concatenation of its atoms.  No atom occurs inside the concatenation of *)
(* other atoms, so prefix, substring and equality tests on the atoms are   *)
(* the tests the code makes on the characters.                             *)
(***************************************************************************)
EXTENDS Integers, Sequences, FiniteSets, TLC

\* ------------------------------------------------------------------ text

NL == "\n"
SP == " "
FLAG == "--no-sandbox"
EXT == ".AppImage"
KIT == "appimagekit_"
\* A backslash escape that re rejects in a replacement template, such as the
\* \1 of a name "\1" or the \D of "AC\DC"
ESC == "\\1"

\* The characters Python's \s and str.strip()/str.split() treat as blank.
IsSpace(a) == a \in {SP, NL}

StartsWith(s, pre) ==
    /\ Len(s) >= Len(pre)
    /\ SubSeq(s, 1, Len(pre)) = pre

\* pat in s (Python's substring test)
Contains(s, pat) ==
    \E i \in 1..(Len(s) - Len(pat) + 1) : SubSeq(s, i, i + Len(pat) - 1) = pat

HasAtom(s, a) == \E i \in 1..Len(s) : s[i] = a

\* str.strip(): blanks removed at both ends
Strip(s) ==
    LET nb == {i \in 1..Len(s) : ~IsSpace(s[i])}
    IN  IF nb = {} THEN <<>>
        ELSE LET lo == CHOOSE i \in nb : \A j \in nb : i <= j
                 hi == CHOOSE i \in nb : \A j \in nb : j <= i
             IN  SubSeq(s, lo, hi)

\* str.lower() on the atoms that have an upper-case letter
Lower(s) == [i \in 1..Len(s) |-> IF s[i] = "App" THEN "app" ELSE s[i]]

\* "".join(lines), and what writelines(lines) puts in the file
RECURSIVE Join(_)
Join(lines) ==
    IF lines = <<>> THEN <<>> ELSE Head(lines) \o Join(Tail(lines))

\* f.readlines(): the content cut after every newline
RECURSIVE SplitLines(_)
SplitLines(content) ==
    IF content = <<>> THEN <<>>
    ELSE LET nls == {i \in 1..Len(content) : content[i] = NL}
             cut == IF nls = {} THEN Len(content)
                    ELSE CHOOSE i \in nls : \A j \in nls : i <= j
         IN  <<SubSeq(content, 1, cut)>>
                 \o SplitLines(SubSeq(content, cut + 1, Len(content)))


\* ------------------------------------------------ rules (core.py 289-343)

ICON == "Icon="
EXEC == "Exec="
NAME == "Name="

\* re.sub(r"^Icon=appimagekit_[^\s]*", f"Icon={icon_name}", line)
sub_kit_prefix(line, icon_name) ==
    IF Len(line) >= 2 /\ line[1] = ICON /\ line[2] = KIT
    THEN LET stop == {i \in 3..Len(line) : IsSpace(line[i])}
             e == IF stop = {} THEN Len(line)
                  ELSE (CHOOSE i \in stop : \A j \in stop : i <= j) - 1
         IN  <<ICON>> \o icon_name \o SubSeq(line, e + 1, Len(line))
    ELSE line

\* re.sub(r"^Icon=.* \(.*\)", f"Icon={icon_name}", line): both .* are greedy
\* and stop at a newline, so the match ends at the last ")" that has " ("
\* somewhere before it.
sub_paren_qualifier(line, icon_name) ==
    LET ends == {j \in 2..Len(line) :
                    /\ line[j] = ")"
                    /\ \A k \in 2..j : line[k] # NL
                    /\ \E i \in 2..(j - 2) : line[i] = SP /\ line[i + 1] = "("}
    IN  IF Len(line) >= 1 /\ line[1] = ICON /\ ends # {}
        THEN LET e == CHOOSE j \in ends : \A k \in ends : k <= j
             IN  <<ICON>> \o icon_name \o SubSeq(line, e + 1, Len(line))
        ELSE line

\* re.sub parses its replacement f"Icon={icon_name}" as a template before it
\* looks for a match, and raises re.error on an escape it rejects
template_error(icon_name) == HasAtom(icon_name, ESC)

\* the body of the loop of fix_icon_references, for one line
fix_icon_line(line, icon_name) ==
    IF StartsWith(line, <<ICON>>)
    THEN LET l1 == sub_kit_prefix(line, icon_name)
             l2 == sub_paren_qualifier(l1, icon_name)
         IN  IF StartsWith(l2, <<ICON>>) /\ Strip(l2) # <<ICON>> \o icon_name
             THEN <<ICON>> \o icon_name \o <<NL>>
             ELSE l2
    ELSE line

\* fix_icon_references(lines, icon_name) -> (result_lines, modified); the
\* re.sub of the first Icon= line raises when the template is rejected, and
\* nothing is returned then
fix_icon_references(lines, icon_name) ==
    LET result_lines == [i \in 1..Len(lines) |-> fix_icon_line(lines[i], icon_name)]
    IN  IF template_error(icon_name)
           /\ \E i \in 1..Len(lines) : StartsWith(lines[i], <<ICON>>)
        THEN [lines |-> <<>>, modified |-> FALSE, raised |-> TRUE]
        ELSE [lines |-> result_lines,
              modified |-> \E i \in 1..Len(lines) : result_lines[i] # lines[i],
              raised |-> FALSE]

\* re.sub(r"(\.AppImage)(\s)", r"\1 --no-sandbox\2", line): every occurrence
RECURSIVE sub_ext_space(_)
sub_ext_space(line) ==
    IF line = <<>> THEN <<>>
    ELSE IF Len(line) >= 2 /\ line[1] = EXT /\ IsSpace(line[2])
         THEN <<EXT, SP, FLAG, line[2]>> \o sub_ext_space(SubSeq(line, 3, Len(line)))
         ELSE <<line[1]>> \o sub_ext_space(Tail(line))

\* re.sub(r"(\.AppImage)$", r"\1 --no-sandbox", line): "$" matches at the end
\* of the string and just before a newline that ends the string.
sub_ext_end(line) ==
    LET n == Len(line)
    IN  IF n >= 1 /\ line[n] = EXT THEN line \o <<SP, FLAG>>
        ELSE IF n >= 2 /\ line[n] = NL /\ line[n - 1] = EXT
             THEN SubSeq(line, 1, n - 1) \o <<SP, FLAG, NL>>
             ELSE line

\* re.sub(r"(\.AppImage)(\n)$", r"\1 --no-sandbox\2", line)
sub_ext_newline(line) ==
    LET n == Len(line)
    IN  IF n >= 2 /\ line[n] = NL /\ line[n - 1] = EXT
        THEN SubSeq(line, 1, n - 1) \o <<SP, FLAG, NL>>
        ELSE IF n >= 3 /\ line[n] = NL /\ line[n - 1] = NL /\ line[n - 2] = EXT
             THEN SubSeq(line, 1, n - 2) \o <<SP, FLAG, NL, NL>>
             ELSE line

\* add_flag_line without its test of the Exec= key
add_flag_line_any_key(line) ==
    IF HasAtom(line, EXT)
    THEN sub_ext_newline(sub_ext_end(sub_ext_space(line)))
    ELSE line

\* add_flag_line with the first substitution only: .AppImage before a blank
add_flag_line_before_blank_only(line) ==
    IF StartsWith(line, <<EXEC>>) /\ HasAtom(line, EXT)
    THEN sub_ext_space(line)
    ELSE line

\* the body of the loop of add_no_sandbox_flag, for one line
add_flag_line(line) ==
    IF StartsWith(line, <<EXEC>>) /\ HasAtom(line, EXT)
    THEN sub_ext_newline(sub_ext_end(sub_ext_space(line)))
    ELSE line

\* add_no_sandbox_flag looking for the flag in the line at hand only
add_no_sandbox_flag_per_line(lines) ==
    LET result_lines == [i \in 1..Len(lines) |->
                            IF HasAtom(lines[i], FLAG) THEN lines[i]
                            ELSE add_flag_line(lines[i])]
    IN  [lines |-> result_lines,
         modified |-> \E i \in 1..Len(lines) : result_lines[i] # lines[i]]

\* add_no_sandbox_flag leaving the loop after the first line it changed
add_no_sandbox_flag_first_only(lines) ==
    IF \E i \in 1..Len(lines) : HasAtom(lines[i], FLAG)
    THEN [lines |-> lines, modified |-> FALSE]
    ELSE LET hit == {i \in 1..Len(lines) : add_flag_line(lines[i]) # lines[i]}
             first == IF hit = {} THEN 0
                      ELSE CHOOSE i \in hit : \A j \in hit : i <= j
         IN  [lines |-> [i \in 1..Len(lines) |->
                            IF i = first THEN add_flag_line(lines[i]) ELSE lines[i]],
              modified |-> hit # {}]

\* add_no_sandbox_flag(lines) -> (result_lines, modified)
add_no_sandbox_flag(lines) ==
    IF \E i \in 1..Len(lines) : HasAtom(lines[i], FLAG)
    THEN [lines |-> lines, modified |-> FALSE]
    ELSE LET result_lines == [i \in 1..Len(lines) |-> add_flag_line(lines[i])]
         IN  [lines |-> result_lines,
              modified |-> \E i \in 1..Len(lines) : result_lines[i] # lines[i]]

\* needs_fixing, on the lines read_desktop_file returned
needs_fixing_lines(lines, icon_name, needs_no_sandbox) ==
    IF lines = <<>> THEN FALSE
    ELSE LET content == Join(lines)
             icon_correct == Contains(content, <<ICON>> \o icon_name \o <<NL>>)
             sandbox_correct == IF needs_no_sandbox THEN HasAtom(content, FLAG)
                                ELSE TRUE
         IN  ~(icon_correct /\ sandbox_correct)


\* lines 402-410 of fix_desktop_file: the icon rule, then the sandbox rule
\* on its output when needs_no_sandbox; an error raised by the icon rule
\* ends the pass
apply_rules(lines, icon_name, needs_no_sandbox) ==
    LET icon == fix_icon_references(lines, icon_name)
        sandbox == IF needs_no_sandbox THEN add_no_sandbox_flag(icon.lines)
                   ELSE [lines |-> icon.lines, modified |-> FALSE]
    IN  IF icon.raised
        THEN [lines |-> <<>>, icon_modified |-> FALSE,
              sandbox_modified |-> FALSE, raised |-> TRUE]
        ELSE [lines |-> sandbox.lines,
              icon_modified |-> icon.modified,
              sandbox_modified |-> sandbox.modified,
              raised |-> FALSE]

\* ------------------------------------------- names and configuration

\* extract_app_name, on the lines read: the stripped value of the first
\* Name= line, None when there is none
None == <<"None">>

extract_app_name_lines(lines) ==
    LET idx == {i \in 1..Len(lines) : StartsWith(lines[i], <<NAME>>)}
    IN  IF idx = {} THEN None
        ELSE LET i == CHOOSE k \in idx : \A j \in idx : k <= j
             IN  Strip(SubSeq(lines[i], 2, Len(lines[i])))

\* app_name.split()[0]: the first blank-delimited word
first_word(s) ==
    LET t == Strip(s)
        stop == {i \in 1..Len(t) : IsSpace(t[i])}
    IN  IF stop = {} THEN t
        ELSE SubSeq(t, 1, (CHOOSE i \in stop : \A j \in stop : i <= j) - 1)

\* get_app_config(app_name): the icon name and the sandbox policy
get_app_config(app_name) ==
    [icon |-> IF Strip(app_name) = <<>> THEN <<"unknown">>
              ELSE Lower(first_word(app_name)),
     needs_no_sandbox |-> TRUE]

\* ------------------------------------------------------------ inputs

\* Bounds of the model
MaxLines == 2
MaxRuleLines == 3
MaxBody == 3
MaxRuns == 2

\* Lines that end with a newline, one for each case the rules and
\* needs_fixing tell apart.
LinePool ==
    { <<ICON, "app", NL>>,                      \* the target of app "App"
      <<ICON, "z", NL>>,                        \* another icon
      <<ICON, KIT, "z", NL>>,                   \* kit prefix
      <<ICON, "z", SP, "(", "z", ")", NL>>,     \* parenthesized qualifier
      <<ICON, "app", SP, NL>>,                  \* padded with a blank
      <<ICON, ESC, NL>>,                        \* the target of app "\1"
      <<EXEC, "z", EXT, NL>>,                   \* extension, end of line
      <<EXEC, "z", EXT, SP, "z", NL>>,          \* extension, then an argument
      <<EXEC, "z", EXT, SP, FLAG, NL>>,         \* flag present
      <<EXEC, "'", "z", EXT, "'", SP, "z", NL>>,\* quoted path
      <<EXEC, "z", NL>>,                        \* no AppImage
      <<"z", NL>>,                              \* another key
      <<"z", ICON, "app", NL>>,                 \* the target inside a line
      <<"z", FLAG, NL>>,                        \* the flag in another key
      <<"z", EXT, NL>> }                        \* the extension in another key

\* The last line of a file may lack its newline.
LastPool == { <<ICON, "app">>, <<EXEC, "z", EXT>> }

RECURSIVE SeqsUpTo(_, _)
SeqsUpTo(S, n) ==
    IF n = 0 THEN {<<>>}
    ELSE LET shorter == SeqsUpTo(S, n - 1)
         IN  shorter \cup
             { b \o <<a>> : b \in {x \in shorter : Len(x) = n - 1}, a \in S }

\* At most n lines: what readlines() can return
PoolLines(n) ==
    SeqsUpTo(LinePool, n) \cup
    { ls \o <<l>> : ls \in SeqsUpTo(LinePool, n - 1), l \in LastPool }

\* Name= lines: app "App" (icon app), app "z" (icon z), a blank name, a
\* name with a backslash escape
NamePool ==
    { <<NAME, "App", NL>>, <<NAME, "z", NL>>, <<NAME, SP, NL>>,
      <<NAME, ESC, NL>> }

\* Desktop files: no or one Name= line, then at most MaxLines lines
Files ==
    { Join(ls) : ls \in PoolLines(MaxLines) } \cup
    { n \o Join(ls) : n \in NamePool, ls \in PoolLines(MaxLines) }

\* Every Icon= and Exec= line of at most MaxBody atoms after the key, over the
\* atoms the regular expressions of its rule tell apart
GenLines ==
    { <<ICON>> \o b \o e : b \in SeqsUpTo({"app", "z", KIT, SP, "(", ")"}, MaxBody),
                           e \in {<<>>, <<NL>>} }
    \cup
    { <<EXEC>> \o b \o e : b \in SeqsUpTo({"z", EXT, SP, FLAG, "'"}, MaxBody),
                           e \in {<<>>, <<NL>>} }

IconNames == { <<"app">>, <<"z">>, <<ESC>> }


\* ------------------------------------------------------------- state

VARIABLES
    arg_lines,   \* rules: the lines handed to a rule
    arg_icon,    \* rules: the icon name handed to a rule
    result,      \* rules: what the last call returned
    desktop,     \* the desktop file's content
    fstate,      \* the desktop file: "ok", "unreadable" or "missing"
    backup,      \* the content of <path>.bak, NoFile when there is none
    bak_ok,      \* whether shutil.copy2 to <path>.bak can succeed
    write_mode,  \* what open(path, "w") + writelines does: "ok", "denied", "truncated"
    hist,        \* the fix_desktop_file calls made so far, oldest first
    registry,    \* the rows of table appimage_registry
    next_id,     \* the next AUTOINCREMENT id
    clock,       \* the time datetime.now() returns next
    db_ok,       \* whether the storage accepts statements
    db_ret,      \* what the last registry call did
    desktop_files, \* the desktop files find_appimage_files returns, in order
    binaries,    \* the AppImage binaries on disk
    tool_env,    \* what each external tool does when it is run
    run_ret,     \* what the last run() or registry sync did
    ver_file,    \* the file handed to a function that is called alone
    ver_ret,     \* what the call of that function returned
    passes       \* the fix_desktop_file calls under way: where each is, what it holds

rule_vars == <<arg_lines, arg_icon, result>>
file_vars == <<desktop, fstate, backup, bak_ok, write_mode, hist, passes>>
db_vars == <<registry, next_id, clock, db_ok, db_ret>>
run_vars == <<desktop_files, binaries, tool_env, run_ret, ver_file, ver_ret>>
vars == <<rule_vars, file_vars, db_vars, run_vars>>

NoFile == <<"NoFile">>
NoCall == [op |-> "none"]

RulesIdle == arg_lines = <<>> /\ arg_icon = <<>> /\ result = NoCall
FilesIdle ==
    /\ desktop = <<>> /\ fstate = "missing" /\ backup = NoFile
    /\ bak_ok = TRUE /\ write_mode = "ok" /\ hist = <<>>
    /\ passes = <<>>
DbIdle ==
    /\ registry = {} /\ next_id = 1 /\ clock = 1 /\ db_ok = TRUE
    /\ db_ret = NoCall

\* no external tool is installed
NoTools ==
    [t \in {"appimagetool", "binwalk", "file"} |->
        [kind |-> "missing", returncode |-> 0, stdout |-> <<>>]]

NoRun == [op |-> "none", n |-> 0]

RunIdle ==
    /\ desktop_files = <<>> /\ binaries = <<>> /\ tool_env = NoTools
    /\ run_ret = NoRun
    /\ ver_file = NoFile /\ ver_ret = NoCall

\* ------------------------------------------- the rules, called alone

RuleInputs == PoolLines(MaxRuleLines) \cup { <<l>> : l \in GenLines }

InitRules ==
    /\ arg_lines \in RuleInputs
    /\ arg_icon \in IconNames
    /\ result = NoCall
    /\ FilesIdle /\ DbIdle /\ RunIdle

CallFixIcon ==
    /\ result = NoCall
    /\ LET r == fix_icon_references(arg_lines, arg_icon)
       IN  result' = [op |-> "fix_icon_references", lines |-> r.lines,
                      icon_modified |-> r.modified, sandbox_modified |-> FALSE,
                      raised |-> r.raised]
    /\ UNCHANGED <<arg_lines, arg_icon, file_vars, db_vars, run_vars>>

CallAddFlag ==
    /\ result = NoCall
    /\ LET r == add_no_sandbox_flag(arg_lines)
       IN  result' = [op |-> "add_no_sandbox_flag", lines |-> r.lines,
                      icon_modified |-> FALSE, sandbox_modified |-> r.modified,
                      raised |-> FALSE]
    /\ UNCHANGED <<arg_lines, arg_icon, file_vars, db_vars, run_vars>>

\* the fix pass of fix_desktop_file on lines already read
CallFixPass ==
    /\ result = NoCall
    /\ LET r == apply_rules(arg_lines, arg_icon, TRUE)
       IN  result' = [op |-> "fix_pass", lines |-> r.lines,
                      icon_modified |-> r.icon_modified,
                      sandbox_modified |-> r.sandbox_modified,
                      raised |-> r.raised]
    /\ UNCHANGED <<arg_lines, arg_icon, file_vars, db_vars, run_vars>>

NextRules == CallFixIcon \/ CallAddFlag \/ CallFixPass

SpecRules == InitRules /\ [][NextRules]_vars


\* ------------------------------------- fix_desktop_file (core.py 365-418)

\* read_desktop_file: the lines of the file, [] on any error
read_desktop_file(content, state) ==
    IF state = "ok" THEN SplitLines(content) ELSE <<>>

\* write_desktop_file: open(path, "w") and writelines(lines); an error at
\* open leaves the file as it was, an error after it leaves it truncated
write_desktop_file(content, lines, mode) ==
    CASE mode = "ok" -> [ok |-> TRUE, content |-> Join(lines), io |-> "write_ok"]
      [] mode = "denied" -> [ok |-> FALSE, content |-> content, io |-> "write_denied"]
      [] OTHER -> [ok |-> FALSE, content |-> <<>>, io |-> "write_truncated"]

extract_app_name(content, state) ==
    extract_app_name_lines(read_desktop_file(content, state))

needs_fixing(content, state, icon_name, needs_no_sandbox) ==
    needs_fixing_lines(read_desktop_file(content, state), icon_name, needs_no_sandbox)

\* fix_after_backup reporting a fix whether or not the write succeeded
fix_after_backup_ignoring_write(content, state, icon_name, needs_no_sandbox, mode) ==
    LET lines == read_desktop_file(content, state)
        fixed == apply_rules(lines, icon_name, needs_no_sandbox)
        written == write_desktop_file(content, fixed.lines, mode)
        unwritten == [ret |-> FALSE, raised |-> FALSE, desktop |-> content,
                      backup |-> content, io |-> <<"copy_ok">>]
    IN  IF lines = <<>> THEN unwritten
        ELSE IF fixed.raised THEN [unwritten EXCEPT !.raised = TRUE]
        ELSE IF fixed.icon_modified \/ fixed.sandbox_modified
             THEN [ret |-> TRUE, raised |-> FALSE,
                   desktop |-> written.content,
                   backup |-> content, io |-> <<"copy_ok", written.io>>]
             ELSE unwritten

\* Lines 397-418: with the backup made, read the file again, apply the
\* rules and write when one of them changed a line.  Nothing here catches
\* the error a rule raises: the call then ends without a return value
\* (raised; ret is FALSE for "did not return True") and without a write.
fix_after_backup(content, state, icon_name, needs_no_sandbox, mode) ==
    LET lines == read_desktop_file(content, state)
        fixed == apply_rules(lines, icon_name, needs_no_sandbox)
        written == write_desktop_file(content, fixed.lines, mode)
        unwritten == [ret |-> FALSE, raised |-> FALSE, desktop |-> content,
                      backup |-> content, io |-> <<"copy_ok">>]
    IN  IF lines = <<>> THEN unwritten
        ELSE IF fixed.raised THEN [unwritten EXCEPT !.raised = TRUE]
        ELSE IF fixed.icon_modified \/ fixed.sandbox_modified
             THEN [ret |-> written.ok, raised |-> FALSE,
                   desktop |-> written.content,
                   backup |-> content, io |-> <<"copy_ok", written.io>>]
             ELSE unwritten

\* fix_desktop_file that goes on to fix and write when the copy failed
fix_desktop_file_without_backup(content, state, bak, can_copy, mode) ==
    LET skip == [ret |-> FALSE, raised |-> FALSE, desktop |-> content,
                 backup |-> bak, io |-> <<>>]
        app_name == extract_app_name(content, state)
        config == get_app_config(app_name)
        r == fix_after_backup(content, state, config.icon,
                              config.needs_no_sandbox, mode)
    IN  IF state = "missing" THEN skip
        ELSE IF app_name = None \/ app_name = <<>> THEN skip
        ELSE IF ~needs_fixing(content, state, config.icon, config.needs_no_sandbox)
             THEN skip
        ELSE IF ~can_copy
             THEN [r EXCEPT !.backup = bak, !.io = <<"copy_failed">> \o Tail(r.io)]
             ELSE r

\* fix_desktop_file that goes on without an application name
fix_desktop_file_unnamed(content, state, bak, can_copy, mode) ==
    LET skip == [ret |-> FALSE, raised |-> FALSE, desktop |-> content,
                 backup |-> bak, io |-> <<>>]
        app_name == extract_app_name(content, state)
        config == get_app_config(app_name)
    IN  IF state = "missing" THEN skip
        ELSE IF ~needs_fixing(content, state, config.icon, config.needs_no_sandbox)
             THEN skip
        ELSE IF ~can_copy
             THEN [skip EXCEPT !.io = <<"copy_failed">>]
             ELSE fix_after_backup(content, state, config.icon,
                                   config.needs_no_sandbox, mode)

\* One call of fix_desktop_file: the value returned, the two files
\* afterwards, and the copies and writes made, in the order the code makes
\* them.
fix_desktop_file(content, state, bak, can_copy, mode) ==
    LET skip == [ret |-> FALSE, raised |-> FALSE, desktop |-> content,
                 backup |-> bak, io |-> <<>>]
        app_name == extract_app_name(content, state)
        config == get_app_config(app_name)
    IN  IF state = "missing" THEN skip
        ELSE IF app_name = None \/ app_name = <<>> THEN skip
        ELSE IF ~needs_fixing(content, state, config.icon, config.needs_no_sandbox)
             THEN skip
        ELSE IF ~can_copy
             THEN [skip EXCEPT !.io = <<"copy_failed">>]
             ELSE fix_after_backup(content, state, config.icon,
                                   config.needs_no_sandbox, mode)

\* A .bak left by an earlier fix of other content
StaleBackup == <<"z", NL>>

\* A readable file under every combination of copy and write faults; an
\* unreadable or missing one where copy and write would succeed.
Init ==
    /\ \/ /\ desktop \in Files /\ fstate = "ok"
          /\ bak_ok \in BOOLEAN
          /\ write_mode \in {"ok", "denied", "truncated"}
       \/ /\ desktop \in Files /\ fstate = "unreadable"
          /\ bak_ok = TRUE /\ write_mode = "ok"
       \/ /\ desktop = <<>> /\ fstate = "missing"
          /\ bak_ok = TRUE /\ write_mode = "ok"
    /\ backup \in {NoFile, StaleBackup}
    /\ hist = <<>>
    /\ passes = <<>>
    /\ RulesIdle /\ DbIdle /\ RunIdle

\* fix_desktop_file(file_path), called again with nothing changed outside
FixDesktopFile ==
    /\ Len(hist) < MaxRuns
    /\ \E r \in {fix_desktop_file(desktop, fstate, backup, bak_ok, write_mode)} :
           /\ desktop' = r.desktop
           /\ backup' = r.backup
           /\ hist' = Append(hist, [before |-> desktop, bak_before |-> backup,
                                    ret |-> r.ret, raised |-> r.raised,
                                    io |-> r.io])
    /\ UNCHANGED <<fstate, bak_ok, write_mode, passes, rule_vars, db_vars, run_vars>>

Next == FixDesktopFile

Spec == Init /\ [][Next]_vars

\* ----------------------------------------- the registry (database.py)

MaxOps == 3
MaxPathList == 2

NULL == "NULL"

\* pathlib.Path values, as their parts
Paths == { <<"a", "app1.AppImage">>, <<"a", "app2.AppImage">> }

\* str(path)
str_path(path) == "/" \o path[1] \o "/" \o path[2]

\* the data handed to add_or_update_appimage
Records ==
    [name : {"App"}, version : {"1.0.0", NULL}, checksum : {"c1", "c2"},
     file_path : {str_path(q) : q \in Paths},
     desktop_file : {"/d/app.desktop"}, appimage_id : {NULL}]
    \cup
    [name : {NULL}, version : {NULL}, checksum : {"c1"},
     file_path : {str_path(<<"a", "app1.AppImage">>)},
     desktop_file : {"/d/app.desktop"}, appimage_id : {NULL}]

\* add_or_update_appimage replacing the row of the same checksum instead of
\* the row of the same file_path
add_or_update_appimage_by_checksum(rows, id, now, storage_ok, data) ==
    IF ~storage_ok \/ data.name = NULL \/ data.checksum = NULL
                   \/ data.file_path = NULL
    THEN [ret |-> FALSE, raised |-> FALSE, rows |-> rows, next_id |-> id]
    ELSE [ret |-> TRUE, raised |-> FALSE,
          rows |-> {r \in rows : r.checksum # data.checksum} \cup
                   {[id |-> id, name |-> data.name, version |-> data.version,
                     checksum |-> data.checksum, file_path |-> data.file_path,
                     desktop_file |-> data.desktop_file,
                     appimage_id |-> data.appimage_id,
                     last_scan |-> now, created_at |-> now]},
          next_id |-> id + 1]

\* add_or_update_appimage without its except clause: a fault raises
add_or_update_appimage_uncaught(rows, id, now, storage_ok, data) ==
    IF ~storage_ok \/ data.name = NULL \/ data.checksum = NULL
                   \/ data.file_path = NULL
    THEN [ret |-> FALSE, raised |-> TRUE, rows |-> rows, next_id |-> id]
    ELSE [ret |-> TRUE, raised |-> FALSE,
          rows |-> {r \in rows : r.file_path # data.file_path} \cup
                   {[id |-> id, name |-> data.name, version |-> data.version,
                     checksum |-> data.checksum, file_path |-> data.file_path,
                     desktop_file |-> data.desktop_file,
                     appimage_id |-> data.appimage_id,
                     last_scan |-> now, created_at |-> now]},
          next_id |-> id + 1]

\* INSERT OR REPLACE INTO appimage_registry (...) VALUES (...): the row with
\* the same file_path (UNIQUE) goes, the new row gets the next AUTOINCREMENT
\* id and created_at by default; a NULL in a NOT NULL column or a storage
\* fault raises, which the except clause turns into False.
add_or_update_appimage(rows, id, now, storage_ok, data) ==
    IF ~storage_ok \/ data.name = NULL \/ data.checksum = NULL
                   \/ data.file_path = NULL
    THEN [ret |-> FALSE, raised |-> FALSE, rows |-> rows, next_id |-> id]
    ELSE [ret |-> TRUE, raised |-> FALSE,
          rows |-> {r \in rows : r.file_path # data.file_path} \cup
                   {[id |-> id, name |-> data.name, version |-> data.version,
                     checksum |-> data.checksum, file_path |-> data.file_path,
                     desktop_file |-> data.desktop_file,
                     appimage_id |-> data.appimage_id,
                     last_scan |-> now, created_at |-> now]},
          next_id |-> id + 1]

\* cleanup_orphaned deleting with an empty list too: NOT IN () holds of every row
cleanup_orphaned_unguarded(rows, storage_ok, existing_paths) ==
    LET existing_paths_str == {str_path(existing_paths[i]) : i \in 1..Len(existing_paths)}
        kept == {r \in rows : r.file_path \in existing_paths_str}
    IN  IF ~storage_ok
        THEN [ret |-> 0, raised |-> TRUE, rows |-> rows]
        ELSE [ret |-> Cardinality(rows \ kept), raised |-> FALSE, rows |-> kept]

\* cleanup_orphaned handing the Path objects to the statement: no file_path,
\* a string, equals one of them
cleanup_orphaned_unconverted(rows, storage_ok, existing_paths) ==
    IF existing_paths = <<>> THEN [ret |-> 0, raised |-> FALSE, rows |-> rows]
    ELSE IF ~storage_ok
         THEN [ret |-> 0, raised |-> TRUE, rows |-> rows]
         ELSE [ret |-> Cardinality(rows), raised |-> FALSE, rows |-> {}]

\* cleanup_orphaned(existing_paths) -> rowcount of the DELETE; a storage
\* fault raises out of it (there is no except clause)
cleanup_orphaned(rows, storage_ok, existing_paths) ==
    LET existing_paths_str == {str_path(existing_paths[i]) : i \in 1..Len(existing_paths)}
        kept == {r \in rows : r.file_path \in existing_paths_str}
    IN  IF existing_paths = <<>> THEN [ret |-> 0, raised |-> FALSE, rows |-> rows]
        ELSE IF ~storage_ok
             THEN [ret |-> 0, raised |-> TRUE, rows |-> rows]
             ELSE [ret |-> Cardinality(rows \ kept), raised |-> FALSE, rows |-> kept]

\* after AppImageDatabase(): the table exists and is empty
InitDb ==
    /\ registry = {} /\ next_id = 1 /\ clock = 1
    /\ db_ok \in BOOLEAN
    /\ db_ret = NoCall
    /\ RulesIdle /\ FilesIdle /\ RunIdle

AddOrUpdate ==
    /\ clock <= MaxOps
    /\ \E data \in Records :
          LET r == add_or_update_appimage(registry, next_id, clock, db_ok, data)
          IN  /\ registry' = r.rows
              /\ next_id' = r.next_id
              /\ db_ret' = [op |-> "add_or_update_appimage", ret |-> r.ret,
                            raised |-> r.raised, before |-> registry,
                            data |-> data, paths |-> <<>>,
                            storage_ok |-> db_ok]
    /\ clock' = clock + 1
    /\ UNCHANGED <<db_ok, rule_vars, file_vars, run_vars>>

CleanupOrphaned ==
    /\ \E ps \in SeqsUpTo(Paths, MaxPathList) :
          LET r == cleanup_orphaned(registry, db_ok, ps)
          IN  /\ registry' = r.rows
              /\ db_ret' = [op |-> "cleanup_orphaned", ret |-> r.ret,
                            raised |-> r.raised, before |-> registry,
                            data |-> NULL, paths |-> ps,
                            storage_ok |-> db_ok]
    /\ UNCHANGED <<next_id, clock, db_ok, rule_vars, file_vars, run_vars>>

\* the storage starts or stops failing (disk full, file locked, ...)
StorageChanges ==
    /\ db_ok' = ~db_ok
    /\ UNCHANGED <<registry, next_id, clock, db_ret, rule_vars, file_vars, run_vars>>

NextDb == AddOrUpdate \/ CleanupOrphaned \/ StorageChanges

SpecDb == InitDb /\ [][NextDb]_vars

\* ------------------------------------ versions (core.py 99-287)

DOT == "."
XVER == "X-AppImage-Version="

\* \d, on the digits of the model
IsDigit(a) == a \in {"1", "2"}

\* the end of the longest run of digits of s that starts at i; i - 1 when
\* s has no digit at i
DigitsEnd(s, i) ==
    LET stop == {j \in i..Len(s) : ~IsDigit(s[j])}
    IN  IF stop = {} THEN Len(s)
        ELSE (CHOOSE j \in stop : \A k \in stop : j <= k) - 1

\* where a match of \d+\.\d+\.\d+ that starts at i ends; 0 when there is none
\* (each \d+ is greedy, and giving a digit back never helps: a digit follows)
MatchVersionEnd(s, i) ==
    LET e1 == DigitsEnd(s, i)
        e2 == DigitsEnd(s, e1 + 2)
        e3 == DigitsEnd(s, e2 + 2)
    IN  IF /\ i >= 1 /\ e1 >= i
           /\ e1 + 1 <= Len(s) /\ s[e1 + 1] = DOT /\ e2 >= e1 + 2
           /\ e2 + 1 <= Len(s) /\ s[e2 + 1] = DOT /\ e3 >= e2 + 2
        THEN e3 ELSE 0

\* re.search(r"(\d+\.\d+\.\d+)", s): group 1 of the leftmost match, None
\* when there is no match
search_version(s) ==
    LET at == {i \in 1..Len(s) : MatchVersionEnd(s, i) > 0}
    IN  IF at = {} THEN None
        ELSE LET i == CHOOSE k \in at : \A j \in at : k <= j
             IN  SubSeq(s, i, MatchVersionEnd(s, i))

\* re.search(r"\((\d+\.\d+\.\d+)\)", s)
search_paren_version(s) ==
    LET at == {i \in 1..Len(s) :
                  /\ s[i] = "("
                  /\ MatchVersionEnd(s, i + 1) > 0
                  /\ MatchVersionEnd(s, i + 1) + 1 <= Len(s)
                  /\ s[MatchVersionEnd(s, i + 1) + 1] = ")"}
    IN  IF at = {} THEN None
        ELSE LET i == CHOOSE k \in at : \A j \in at : k <= j
             IN  SubSeq(s, i + 1, MatchVersionEnd(s, i + 1))

\* re.search(r"\((\d+)\)", s)
search_paren_number(s) ==
    LET at == {i \in 1..Len(s) :
                  /\ s[i] = "("
                  /\ DigitsEnd(s, i + 1) >= i + 1
                  /\ DigitsEnd(s, i + 1) + 1 <= Len(s)
                  /\ s[DigitsEnd(s, i + 1) + 1] = ")"}
    IN  IF at = {} THEN None
        ELSE LET i == CHOOSE k \in at : \A j \in at : k <= j
             IN  SubSeq(s, i + 1, DigitsEnd(s, i + 1))

\* re.search(r"version[:\s]+([0-9]+\.[0-9]+\.[0-9]+)", stdout, re.IGNORECASE)
search_tool_version(stdout) ==
    LET IsSep(a) == a = ":" \/ IsSpace(a)
        SepEnd(i) ==
            LET stop == {j \in i..Len(stdout) : ~IsSep(stdout[j])}
            IN  IF stop = {} THEN Len(stdout)
                ELSE (CHOOSE j \in stop : \A k \in stop : j <= k) - 1
        at == {i \in 1..Len(stdout) :
                  /\ stdout[i] \in {"version", "Version"}
                  /\ SepEnd(i + 1) >= i + 1
                  /\ MatchVersionEnd(stdout, SepEnd(i + 1) + 1) > 0}
    IN  IF at = {} THEN None
        ELSE LET i == CHOOSE k \in at : \A j \in at : k <= j
             IN  SubSeq(stdout, SepEnd(i + 1) + 1,
                        MatchVersionEnd(stdout, SepEnd(i + 1) + 1))

\* the atoms of a path: the directory "/a/" and the "./" that pathlib drops
DIRA == "/a/"
HERE == "./"

RECURSIVE Concat(_)
Concat(s) == IF s = <<>> THEN "" ELSE Head(s) \o Concat(Tail(s))

\* the atoms of Path(token).name: what follows the directory, "./" dropped
path_name(token) ==
    LET rest == IF token # <<>> /\ token[1] = DIRA THEN Tail(token) ELSE token
    IN  SelectSeq(rest, LAMBDA a : a # HERE)

\* pathlib.Path(token), as its parts: "/a/./x" and "/a/x" are one path; a
\* token without directory is relative to the working directory "."
Path(token) ==
    <<IF token # <<>> /\ token[1] = DIRA THEN "a" ELSE ".",
      Concat(path_name(token))>>

\* get_appimage_path_from_desktop, on the lines read: the lines are taken in
\* order; the first whitespace-delimited token of an Exec= value is returned
\* when it ends in .AppImage, and split()[0] raises IndexError on an Exec=
\* line whose value is blank
get_appimage_path_lines(lines) ==
    LET value(i) == Strip(Tail(lines[i]))
        token(i) == first_word(value(i))
        execs == {i \in 1..Len(lines) : StartsWith(lines[i], <<EXEC>>)}
        stops == {i \in execs :
                     \/ value(i) = <<>>
                     \/ token(i)[Len(token(i))] = EXT}
    IN  IF stops = {} THEN [raised |-> FALSE, token |-> None, path |-> None]
        ELSE LET i == CHOOSE k \in stops : \A j \in stops : k <= j
             IN  IF value(i) = <<>>
                 THEN [raised |-> TRUE, token |-> None, path |-> None]
                 ELSE [raised |-> FALSE, token |-> token(i),
                       path |-> Path(token(i))]

get_appimage_path_from_desktop(content, state) ==
    get_appimage_path_lines(read_desktop_file(content, state))

\* extract_desktop_version looking at the file's own name before the
\* X-AppImage-Version= field
extract_desktop_version_name_first(content, state, file_name) ==
    LET lines == read_desktop_file(content, state)
        xs == {i \in 1..Len(lines) : StartsWith(lines[i], <<XVER>>)}
        app_name == extract_app_name(content, state)
    IN  IF search_version(file_name) # None
        THEN search_version(file_name)
        ELSE IF xs # {}
             THEN Strip(Tail(lines[CHOOSE k \in xs : \A j \in xs : k <= j]))
        ELSE IF app_name # None /\ app_name # <<>>
             THEN IF search_paren_version(app_name) # None
                  THEN search_paren_version(app_name)
                  ELSE search_paren_number(app_name)
        ELSE None

\* extract_desktop_version(file_path): the X-AppImage-Version= field, then
\* the file's own name, then the Name= value
extract_desktop_version(content, state, file_name) ==
    LET lines == read_desktop_file(content, state)
        xs == {i \in 1..Len(lines) : StartsWith(lines[i], <<XVER>>)}
        app_name == extract_app_name(content, state)
    IN  IF xs # {}
        THEN Strip(Tail(lines[CHOOSE k \in xs : \A j \in xs : k <= j]))
        ELSE IF search_version(file_name) # None
             THEN search_version(file_name)
        ELSE IF app_name # None /\ app_name # <<>>
             THEN IF search_paren_version(app_name) # None
                  THEN search_paren_version(app_name)
                  ELSE search_paren_number(app_name)
        ELSE None

\* The external tools, in the order the code tries them
ToolOrder == <<"appimagetool", "binwalk", "file">>

\* what one subprocess.run gives: the version parsed from stdout when the
\* tool exited with 0 and wrote something; None when it is missing
\* (FileNotFoundError), timed out (TimeoutExpired) or exited non-zero
tool_version(outcome) ==
    IF outcome.kind = "exit" /\ outcome.returncode = 0 /\ outcome.stdout # <<>>
    THEN search_tool_version(outcome.stdout)
    ELSE None

\* extract_appimage_version asking the tools before it looks at the name
extract_appimage_version_tools_first(name, exists, tools) ==
    LET yields == {i \in 1..Len(ToolOrder) : tool_version(tools[ToolOrder[i]]) # None}
        first == IF yields = {} THEN Len(ToolOrder)
                 ELSE CHOOSE k \in yields : \A j \in yields : k <= j
    IN  IF ~exists THEN [ret |-> None, ran |-> <<>>]
        ELSE IF yields # {}
             THEN [ret |-> tool_version(tools[ToolOrder[first]]),
                   ran |-> SubSeq(ToolOrder, 1, first)]
        ELSE [ret |-> search_version(name), ran |-> ToolOrder]

\* extract_appimage_version(appimage_path): the version and the programs
\* run, in order
extract_appimage_version(name, exists, tools) ==
    LET yields == {i \in 1..Len(ToolOrder) : tool_version(tools[ToolOrder[i]]) # None}
        first == IF yields = {} THEN Len(ToolOrder)
                 ELSE CHOOSE k \in yields : \A j \in yields : k <= j
    IN  IF ~exists THEN [ret |-> None, ran |-> <<>>]
        ELSE IF search_version(name) # None
             THEN [ret |-> search_version(name), ran |-> <<>>]
        ELSE [ret |-> IF yields = {} THEN None
                      ELSE tool_version(tools[ToolOrder[first]]),
              ran |-> SubSeq(ToolOrder, 1, first)]

\* Path.exists() and the bytes of a binary: bins maps a path to its state
\* ("ok", "unreadable": there but not open to reading) and its SHA256
exists(bins, path) == path \in DOMAIN bins

\* compare_versions(desktop_file)
compare_versions(content, state, file_name, bins, tools) ==
    LET report(desktop_version, p, v) ==
            LET res == [desktop_version |-> desktop_version,
                        appimage_path |-> p.path,
                        appimage_version |-> None,
                        versions_match |-> FALSE,
                        status |-> "unknown",
                        raised |-> FALSE,
                        ran |-> <<>>]
            IN  IF p.raised THEN [res EXCEPT !.raised = TRUE]
                ELSE IF desktop_version = None \/ desktop_version = <<>>
                     THEN [res EXCEPT !.status = "no_desktop_version"]
                ELSE IF p.path = None \/ ~exists(bins, p.path)
                     THEN [res EXCEPT !.status = "appimage_not_found"]
                ELSE IF v.ret = None
                     THEN [res EXCEPT !.status = "no_appimage_version", !.ran = v.ran]
                ELSE [res EXCEPT !.appimage_version = v.ret,
                                 !.versions_match = (desktop_version = v.ret),
                                 !.status = IF desktop_version = v.ret THEN "match"
                                            ELSE "mismatch",
                                 !.ran = v.ran]
        found(desktop_version, p) ==
            CHOOSE res \in
                {report(desktop_version, p, v) :
                    v \in {IF p.raised \/ p.path = None
                           THEN [ret |-> None, ran |-> <<>>]
                           ELSE extract_appimage_version(path_name(p.token),
                                                         exists(bins, p.path),
                                                         tools)}} : TRUE
    IN  CHOOSE res \in
            {found(desktop_version, p) :
                desktop_version \in {extract_desktop_version(content, state, file_name)},
                p \in {get_appimage_path_from_desktop(content, state)}} : TRUE

\* -------------------- the registry sync and run() (core.py 564-611, 644-708)

\* calculate_checksum(path): the SHA256 of the bytes; open() raises on a
\* binary that cannot be read, and nothing catches it
calculate_checksum(bins, path) ==
    IF bins[path].state = "unreadable"
    THEN [raised |-> TRUE, checksum |-> NULL]
    ELSE [raised |-> FALSE, checksum |-> bins[path].checksum]

\* get_by_checksum(checksum): fetchone() of SELECT * ... WHERE checksum = ?,
\* the rows coming in rowid order; None when there is none
get_by_checksum(rows, checksum) ==
    LET hit == {r \in rows : r.checksum = checksum}
    IN  IF hit = {} THEN None
        ELSE CHOOSE r \in hit : \A q \in hit : r.id <= q.id

\* compare_versions_with_db(desktop_file): the result dictionary, `fields`
\* being its keys; the version of the binary is the version column of the row
\* get_by_checksum gives for the binary's checksum (None without a row).
\* calculate_checksum and get_by_checksum are called outside any try block.
compare_versions_with_db(content, state, file_name, bins, rows, storage_ok) ==
    LET res == [raised |-> FALSE, fields |-> {"status"},
                desktop_version |-> None, appimage_version |-> NULL,
                versions_match |-> FALSE, status |-> "appimage_not_found"]
        all == {"desktop_version", "appimage_version", "versions_match", "status"}
        report(desktop_version, appimage_version) ==
            [res EXCEPT !.fields = all,
                        !.desktop_version = desktop_version,
                        !.appimage_version = appimage_version,
                        !.versions_match =
                            /\ desktop_version # None /\ appimage_version # NULL
                            /\ Concat(desktop_version) = appimage_version,
                        !.status =
                            IF desktop_version = None \/ appimage_version = NULL
                            THEN "no_version"
                            ELSE IF Concat(desktop_version) = appimage_version
                                 THEN "match" ELSE "mismatch"]
        lookup(p) ==
            CHOOSE r \in
                {IF sum.raised \/ ~storage_ok THEN [res EXCEPT !.raised = TRUE]
                 ELSE report(desktop_version,
                             IF {q \in rows : q.checksum = sum.checksum} = {}
                             THEN NULL
                             ELSE get_by_checksum(rows, sum.checksum).version) :
                    sum \in {calculate_checksum(bins, p.path)},
                    desktop_version \in {extract_desktop_version(content, state,
                                                                 file_name)}} : TRUE
    IN  CHOOSE r \in
            {IF p.raised THEN [res EXCEPT !.raised = TRUE]
             ELSE IF p.path = None \/ ~exists(bins, p.path) THEN res
             ELSE lookup(p) :
                p \in {get_appimage_path_from_desktop(content, state)}} : TRUE

\* str(desktop_file) of the i-th discovered desktop file
desktop_path(i) == "/d/app" \o ToString(i) \o ".desktop"

\* the value None or a string, for a column of the registry
column(v) == IF v = None THEN NULL ELSE Concat(v)

\* Lines 570-597: the body of the first loop of scan_and_update_database for
\* the i-th desktop file; acc is the state of the pass so far
scan_file(acc, apps, i, bins, tools, storage_ok) ==
    LET upsert(data) ==
            CHOOSE next \in
                {[acc EXCEPT !.rows = u.rows, !.next_id = u.next_id,
                             !.now = acc.now + 1,
                             !.scanned = acc.scanned + 1,
                             !.updated = acc.updated + (IF u.ret THEN 1 ELSE 0),
                             !.log = Append(acc.log, [ev |-> "upsert", ok |-> u.ret,
                                                      data |-> data])] :
                    u \in {add_or_update_appimage(acc.rows, acc.next_id, acc.now,
                                                  storage_ok, data)}} : TRUE
        hash(p, app_name) ==
            CHOOSE next \in
                {IF sum.raised THEN [acc EXCEPT !.raised = TRUE]
                 ELSE upsert([name |-> column(app_name), version |-> column(version),
                              checksum |-> sum.checksum,
                              file_path |-> str_path(p.path),
                              desktop_file |-> desktop_path(i),
                              appimage_id |-> NULL]) :
                    sum \in {calculate_checksum(bins, p.path)},
                    version \in {extract_appimage_version(path_name(p.token), TRUE,
                                                          tools).ret}} : TRUE
    IN  IF acc.raised THEN acc
        ELSE CHOOSE next \in
                {IF p.raised THEN [acc EXCEPT !.raised = TRUE]
                 ELSE IF p.path = None \/ ~exists(bins, p.path) THEN acc
                 ELSE IF app_name = None \/ app_name = <<>> THEN acc
                 ELSE hash(p, app_name) :
                    p \in {get_appimage_path_from_desktop(apps[i].content,
                                                          apps[i].fstate)},
                    app_name \in {extract_app_name(apps[i].content,
                                                   apps[i].fstate)}} : TRUE

RECURSIVE scan_files(_, _, _, _, _, _)
scan_files(acc, apps, i, bins, tools, storage_ok) ==
    IF i > Len(apps) THEN acc
    ELSE CHOOSE done \in
             {scan_files(next, apps, i + 1, bins, tools, storage_ok) :
                 next \in {scan_file(acc, apps, i, bins, tools, storage_ok)}} : TRUE

\* Lines 600-604: the paths handed to cleanup_orphaned
RECURSIVE existing_paths(_, _)
existing_paths(apps, bins) ==
    IF apps = <<>> THEN <<>>
    ELSE LET p == get_appimage_path_from_desktop(Head(apps).content, Head(apps).fstate)
         IN  (IF ~p.raised /\ p.path # None /\ exists(bins, p.path)
              THEN <<p.path>> ELSE <<>>)
             \o existing_paths(Tail(apps), bins)

\* scan_and_update_database without its cleanup step
scan_and_update_database_without_cleanup(apps, bins, tools, rows, id, now, storage_ok) ==
    scan_files([raised |-> FALSE, rows |-> rows, next_id |-> id, now |-> now,
                scanned |-> 0, updated |-> 0, cleaned |-> 0, log |-> <<>>],
               apps, 1, bins, tools, storage_ok)

\* scan_and_update_database(): the upserts in the order of the desktop
\* files, then cleanup_orphaned; an error raised on the way ends the pass
\* where it is, the upserts made so far committed
scan_and_update_database(apps, bins, tools, rows, id, now, storage_ok) ==
    LET start == [raised |-> FALSE, rows |-> rows, next_id |-> id, now |-> now,
                  scanned |-> 0, updated |-> 0, cleaned |-> 0, log |-> <<>>]
        cleanup(scanned, live) ==
            LET c == cleanup_orphaned(scanned.rows, storage_ok, live)
            IN  IF scanned.raised THEN scanned
                ELSE IF c.raised
                     THEN [scanned EXCEPT !.raised = TRUE,
                                          !.log = Append(scanned.log,
                                              [ev |-> "cleanup", ok |-> FALSE,
                                               paths |-> live])]
                ELSE [scanned EXCEPT !.rows = c.rows, !.cleaned = c.ret,
                                     !.log = Append(scanned.log,
                                         [ev |-> "cleanup", ok |-> TRUE,
                                          paths |-> live])]
    IN  CHOOSE done \in
            {cleanup(scanned, live) :
                scanned \in {scan_files(start, apps, 1, bins, tools, storage_ok)},
                live \in {existing_paths(apps, bins)}} : TRUE

\* Lines 686-689: fix_desktop_file on the i-th desktop file
fix_file(acc, i, can_copy, mode) ==
    LET fixed(r) ==
            [acc.apps EXCEPT ![i] = [content |-> r.desktop,
                                     fstate |-> acc.apps[i].fstate,
                                     backup |-> r.backup]]
    IN  IF acc.raised THEN acc
        ELSE CHOOSE next \in
                {IF r.raised THEN [acc EXCEPT !.raised = TRUE, !.apps = fixed(r)]
                 ELSE [acc EXCEPT !.apps = fixed(r),
                                  !.changes_made = acc.changes_made \/ r.ret,
                                  !.files_fixed = acc.files_fixed + (IF r.ret THEN 1 ELSE 0),
                                  !.log = Append(acc.log, [ev |-> "fix", ok |-> r.ret,
                                                           file |-> i])] :
                    r \in {fix_desktop_file(acc.apps[i].content, acc.apps[i].fstate,
                                            acc.apps[i].backup, can_copy, mode)}} : TRUE

RECURSIVE fix_files(_, _, _, _)
fix_files(acc, i, can_copy, mode) ==
    IF i > Len(acc.apps) THEN acc
    ELSE CHOOSE done \in
             {fix_files(next, i + 1, can_copy, mode) :
                 next \in {fix_file(acc, i, can_copy, mode)}} : TRUE

\* run(): the registry sync, then fix_desktop_file on every desktop file,
\* then the two cache refreshes when a file was fixed.  The value is the
\* record returned with the names of its fields (raised when an error ended
\* the run instead), the desktop files and the registry afterwards, and the
\* calls made, in order.
run(apps, bins, tools, rows, id, now, storage_ok, can_copy, mode) ==
    LET finish(db_result, fixed) ==
          LET out == [raised |-> FALSE, apps |-> apps, rows |-> db_result.rows,
                      next_id |-> db_result.next_id, now |-> db_result.now,
                      log |-> db_result.log,
                      fields |-> {"files_found", "files_fixed", "db_scanned",
                                  "db_updated", "db_cleaned", "success"},
                      files_found |-> 0, files_fixed |-> 0, success |-> TRUE,
                      changes_made |-> FALSE,
                      db_scanned |-> db_result.scanned, db_updated |-> db_result.updated,
                      db_cleaned |-> db_result.cleaned]
              refresh == IF fixed.changes_made
                         THEN << [ev |-> "update_desktop_database"],
                                 [ev |-> "update_icon_cache"] >>
                         ELSE <<>>
          IN  IF db_result.raised
              THEN [out EXCEPT !.raised = TRUE, !.fields = {}, !.success = FALSE]
              ELSE IF apps = <<>> THEN out
              ELSE IF fixed.raised
                   THEN [out EXCEPT !.raised = TRUE, !.fields = {}, !.success = FALSE,
                                    !.apps = fixed.apps,
                                    !.log = db_result.log \o fixed.log,
                                    !.files_fixed = fixed.files_fixed]
              ELSE [out EXCEPT !.apps = fixed.apps,
                               !.log = db_result.log \o fixed.log \o refresh,
                               !.fields = out.fields \cup {"changes_made"},
                               !.files_found = Len(apps),
                               !.files_fixed = fixed.files_fixed,
                               !.changes_made = fixed.changes_made]
    IN  CHOOSE done \in
            {finish(db_result, fixed) :
                db_result \in {scan_and_update_database(apps, bins, tools, rows, id,
                                                        now, storage_ok)},
                fixed \in {fix_files([raised |-> FALSE, apps |-> apps,
                                      changes_made |-> FALSE, files_fixed |-> 0,
                                      log |-> <<>>],
                                     1, can_copy, mode)}} : TRUE

\* ------------------------------------------- the world of run()

MaxApps == 2
MaxPasses == 2

\* the Exec targets of the desktop files
AppBinary == <<DIRA, "app", EXT>>
VersionedBinary == <<DIRA, "z", "1", DOT, "2", DOT, "1", EXT>>

\* Desktop files found by find_appimage_files: one that both rules fix (and
\* that needs no fix afterwards), one whose Exec= names its binary with a
\* "./", one whose name makes the icon rule raise, one with an empty Exec=
\* value, one without Name=
RunFiles ==
    { <<NAME, "App", NL, ICON, KIT, "z", NL>> \o <<EXEC>> \o AppBinary \o <<NL>>,
      <<NAME, "z", NL, EXEC, DIRA, HERE>> \o Tail(VersionedBinary) \o <<SP, "z", NL>>,
      <<NAME, ESC, NL, ICON, "app", NL>> \o <<EXEC>> \o VersionedBinary \o <<NL>>,
      <<NAME, "App", NL, EXEC, NL>>,
      <<EXEC>> \o AppBinary \o <<NL>> }

\* the binaries on disk: each there or not, the first readable or not; and
\* the two of them holding the same bytes
RunBins ==
    { [p \in D |-> IF p = Path(AppBinary) THEN [state |-> s, checksum |-> "c1"]
                   ELSE [state |-> "ok", checksum |-> "c2"]] :
        D \in SUBSET {Path(AppBinary), Path(VersionedBinary)},
        s \in {"ok", "unreadable"} }
    \cup
    { [p \in {Path(AppBinary), Path(VersionedBinary)} |->
          [state |-> "ok", checksum |-> "c1"]] }

InitRun ==
    /\ desktop_files \in { [i \in 1..Len(fs) |->
                      [content |-> fs[i], fstate |-> "ok", backup |-> NoFile]] :
                  fs \in {f \in SeqsUpTo(RunFiles, MaxApps) :
                             \A j, k \in 1..Len(f) : f[j] = f[k] => j = k} }
    /\ binaries \in RunBins
    /\ tool_env = NoTools
    /\ run_ret = NoRun
    /\ ver_file = NoFile /\ ver_ret = NoCall
    /\ \E e \in {<<TRUE, "ok">>, <<FALSE, "ok">>, <<TRUE, "denied">>} :
          bak_ok = e[1] /\ write_mode = e[2]
    /\ desktop = <<>> /\ fstate = "missing" /\ backup = NoFile /\ hist = <<>>
    /\ passes = <<>>
    /\ registry = {} /\ next_id = 1 /\ clock = 1 /\ db_ok \in BOOLEAN
    /\ db_ret = NoCall
    /\ RulesIdle

\* run()
Run ==
    /\ run_ret.n < MaxPasses
    /\ \E r \in {run(desktop_files, binaries, tool_env, registry, next_id, clock, db_ok,
                     bak_ok, write_mode)} :
          /\ desktop_files' = r.apps
          /\ registry' = r.rows
          /\ next_id' = r.next_id
          /\ clock' = r.now
          /\ run_ret' = [op |-> "run", n |-> run_ret.n + 1, raised |-> r.raised,
                         before |-> registry, apps_before |-> desktop_files,
                         bins |-> binaries, log |-> r.log,
                         fields |-> r.fields,
                         files_found |-> r.files_found,
                         files_fixed |-> r.files_fixed,
                         success |-> r.success,
                         changes_made |-> r.changes_made,
                         scanned |-> r.db_scanned, updated |-> r.db_updated,
                         cleaned |-> r.db_cleaned]
    /\ UNCHANGED <<binaries, tool_env, ver_file, ver_ret, db_ok, db_ret,
                   desktop, fstate, backup, bak_ok, write_mode, hist, passes,
                   rule_vars>>

\* scan_and_update_database(), called on its own
ScanAndUpdateDatabase ==
    /\ run_ret.n < MaxPasses
    /\ \E r \in {scan_and_update_database(desktop_files, binaries, tool_env, registry, next_id,
                                          clock, db_ok)} :
          /\ registry' = r.rows
          /\ next_id' = r.next_id
          /\ clock' = r.now
          /\ run_ret' = [op |-> "scan_and_update_database", n |-> run_ret.n + 1,
                         raised |-> r.raised,
                         before |-> registry, apps_before |-> desktop_files,
                         bins |-> binaries, log |-> r.log,
                         fields |-> IF r.raised THEN {}
                                    ELSE {"scanned", "updated", "cleaned"},
                         files_found |-> 0, files_fixed |-> 0,
                         success |-> FALSE, changes_made |-> FALSE,
                         scanned |-> r.scanned, updated |-> r.updated,
                         cleaned |-> r.cleaned]
    /\ UNCHANGED <<desktop_files, binaries, tool_env, ver_file, ver_ret, db_ok, db_ret,
                   file_vars, rule_vars>>

\* a binary is deleted from the disk between two passes
BinaryRemoved ==
    /\ \E p \in DOMAIN binaries : binaries' = [q \in DOMAIN binaries \ {p} |-> binaries[q]]
    /\ UNCHANGED <<desktop_files, tool_env, run_ret, ver_file, ver_ret, db_vars,
                   file_vars, rule_vars>>

NextRun == Run \/ ScanAndUpdateDatabase \/ BinaryRemoved

SpecRun == InitRun /\ [][NextRun]_vars

\* ------------------------------------ the version functions, called alone

MaxVerLines == 2

\* Lines of a desktop file that the version functions tell apart
VerLinePool ==
    { <<XVER, "1", DOT, "2", DOT, "1", NL>>,
      <<XVER, "2", NL>>,                        \* a value that is no version
      <<XVER, NL>>,                             \* an empty value
      <<NAME, "App", SP, "(", "1", DOT, "2", DOT, "2", ")", NL>>,
      <<NAME, "App", SP, "(", "2", ")", NL>>,
      <<NAME, "App", SP, "(", "2", ")", SP, "(", "1", DOT, "2", DOT, "2", ")", NL>>,
      <<NAME, "App", SP, "1", DOT, "2", DOT, "2", NL>>,   \* no parentheses
      <<EXEC>> \o AppBinary \o <<NL>>,
      <<EXEC>> \o VersionedBinary \o <<SP, "z", NL>>,
      <<EXEC, "z", NL>>,                        \* no AppImage
      <<EXEC, NL>> }                            \* an empty value

\* Names of desktop files: without a version, with one, with four numbers
VerNames ==
    { <<"app", ".desktop">>,
      <<"app", "-", "2", DOT, "1", DOT, "2", ".desktop">>,
      <<"app", "-", "1", DOT, "2", DOT, "1", DOT, "2", ".desktop">> }

VerFiles ==
    [content : {Join(ls) : ls \in SeqsUpTo(VerLinePool, MaxVerLines)},
     fstate : {"ok", "unreadable"},
     name : VerNames]

\* the binaries on disk, any of the two
VerBins ==
    { [p \in D |-> [state |-> "ok", checksum |-> "c1"]] :
        D \in SUBSET {Path(AppBinary), Path(VersionedBinary)} }

\* What one run of a tool can give
ToolOutcomes ==
    { [kind |-> "missing", returncode |-> 0, stdout |-> <<>>],
      [kind |-> "timeout", returncode |-> 0, stdout |-> <<>>],
      [kind |-> "exit", returncode |-> 1,
       stdout |-> <<"version", SP, "1", DOT, "2", DOT, "1", NL>>],
      [kind |-> "exit", returncode |-> 0, stdout |-> <<>>],
      [kind |-> "exit", returncode |-> 0, stdout |-> <<"version", SP, "2", NL>>],
      [kind |-> "exit", returncode |-> 0,
       stdout |-> <<"z", SP, "Version", ":", SP, "1", DOT, "2", DOT, "1", NL>>],
      [kind |-> "exit", returncode |-> 0,
       stdout |-> <<"version", SP, "2", DOT, "1", DOT, "2", NL>>] }

ToolEnvs == [{"appimagetool", "binwalk", "file"} -> ToolOutcomes]

\* the tool "file" alone gives a version
OnlyFileTool ==
    [NoTools EXCEPT !["file"] =
        [kind |-> "exit", returncode |-> 0,
         stdout |-> <<"version", SP, "2", DOT, "1", DOT, "2", NL>>]]

\* a row of the registry as a synchronisation pass leaves it
VerRow(id, token, checksum, version) ==
    [id |-> id, name |-> "App", version |-> version, checksum |-> checksum,
     file_path |-> str_path(Path(token)), desktop_file |-> "/d/app.desktop",
     appimage_id |-> NULL, last_scan |-> id, created_at |-> id]

\* Registries two upserts can have left
VerRegistries ==
    { {},
      {VerRow(2, AppBinary, "c1", NULL)},
      {VerRow(2, AppBinary, "c1", "1.2.1")},
      {VerRow(1, VersionedBinary, "c2", "1.2.1"), VerRow(2, AppBinary, "c1", "2.1.2")} }

\* Desktop files for compare_versions_with_db: a version field or none, an
\* Exec= line or none
VerDbFiles ==
    [content : { v \o e :
                   v \in { <<>>, <<XVER, NL>>,
                           <<XVER, "1", DOT, "2", DOT, "1", NL>> },
                   e \in { <<>>, <<EXEC, NL>>, <<EXEC, "z", NL>>,
                           <<EXEC>> \o AppBinary \o <<NL>>,
                           <<EXEC>> \o VersionedBinary \o <<SP, "z", NL>> } },
     fstate : {"ok"},
     name : { <<"app", ".desktop">>,
              <<"app", "-", "2", DOT, "1", DOT, "2", ".desktop">> }]

\* Every desktop file of the pool with few tool environments, two desktop
\* files with every tool environment, and the desktop files of VerDbFiles with
\* every registry
InitVer ==
    /\ \/ /\ ver_file \in VerFiles
          /\ tool_env \in {NoTools, OnlyFileTool}
          /\ binaries \in VerBins
          /\ DbIdle
       \/ /\ ver_file \in VerDbFiles
          /\ tool_env = NoTools
          /\ binaries \in RunBins
          /\ registry \in VerRegistries
          /\ next_id = 3 /\ clock = 3
          /\ db_ok \in BOOLEAN
          /\ db_ret = NoCall
       \/ /\ ver_file \in
                [content : { <<XVER, "1", DOT, "2", DOT, "1", NL>> \o <<EXEC>> \o AppBinary \o <<NL>>,
                             <<EXEC>> \o AppBinary \o <<NL>> },
                 fstate : {"ok"},
                 name : {<<"app", "-", "2", DOT, "1", DOT, "2", ".desktop">>}]
          /\ tool_env \in ToolEnvs
          /\ binaries \in VerBins
          /\ DbIdle
    /\ ver_ret = NoCall
    /\ desktop_files = <<>> /\ run_ret = NoRun
    /\ RulesIdle /\ FilesIdle

\* extract_desktop_version(file_path)
CallExtractDesktopVersion ==
    /\ ver_ret = NoCall
    /\ ver_ret' = [op |-> "extract_desktop_version",
                   ret |-> extract_desktop_version(ver_file.content, ver_file.fstate,
                                                   ver_file.name)]
    /\ UNCHANGED <<ver_file, desktop_files, binaries, tool_env, run_ret,
                   rule_vars, file_vars, db_vars>>

\* extract_appimage_version(appimage_path)
CallExtractAppimageVersion ==
    /\ ver_ret = NoCall
    /\ \E token \in {AppBinary, VersionedBinary} :
          \E r \in {extract_appimage_version(path_name(token),
                                             exists(binaries, Path(token)), tool_env)} :
              ver_ret' = [op |-> "extract_appimage_version", token |-> token,
                          ret |-> r.ret, ran |-> r.ran]
    /\ UNCHANGED <<ver_file, desktop_files, binaries, tool_env, run_ret,
                   rule_vars, file_vars, db_vars>>

\* compare_versions(desktop_file)
CallCompareVersions ==
    /\ ver_ret = NoCall
    /\ \E r \in {compare_versions(ver_file.content, ver_file.fstate, ver_file.name,
                                  binaries, tool_env)} :
          ver_ret' = [op |-> "compare_versions", raised |-> r.raised,
                      desktop_version |-> r.desktop_version,
                      appimage_path |-> r.appimage_path,
                      appimage_version |-> r.appimage_version,
                      versions_match |-> r.versions_match,
                      status |-> r.status, ran |-> r.ran]
    /\ UNCHANGED <<ver_file, desktop_files, binaries, tool_env, run_ret,
                   rule_vars, file_vars, db_vars>>

\* get_appimage_path_from_desktop(file_path)
CallGetAppimagePath ==
    /\ ver_ret = NoCall
    /\ \E r \in {get_appimage_path_from_desktop(ver_file.content, ver_file.fstate)} :
          ver_ret' = [op |-> "get_appimage_path_from_desktop", raised |-> r.raised,
                      token |-> r.token, path |-> r.path]
    /\ UNCHANGED <<ver_file, desktop_files, binaries, tool_env, run_ret,
                   rule_vars, file_vars, db_vars>>

\* compare_versions_with_db(desktop_file)
CallCompareVersionsWithDb ==
    /\ ver_ret = NoCall
    /\ \E r \in {compare_versions_with_db(ver_file.content, ver_file.fstate,
                                          ver_file.name, binaries, registry, db_ok)} :
          ver_ret' = [op |-> "compare_versions_with_db", raised |-> r.raised,
                      fields |-> r.fields, desktop_version |-> r.desktop_version,
                      appimage_version |-> r.appimage_version,
                      versions_match |-> r.versions_match, status |-> r.status]
    /\ UNCHANGED <<ver_file, desktop_files, binaries, tool_env, run_ret,
                   rule_vars, file_vars, db_vars>>

NextVer ==
    \/ CallExtractDesktopVersion
    \/ CallExtractAppimageVersion
    \/ CallCompareVersions
    \/ CallGetAppimagePath
    \/ CallCompareVersionsWithDb

SpecVer == InitVer /\ [][NextVer]_vars

\* ------------------------------------------------ claims on the rules

IsIconLine(l) == StartsWith(l, <<ICON>>)
IsExecAppImageLine(l) == StartsWith(l, <<EXEC>>) /\ HasAtom(l, EXT)
FilePresentsFlag(ls) == \E i \in 1..Len(ls) : HasAtom(ls[i], FLAG)

\* C4: a fix pass (icon rule, then sandbox rule) that returns lines returns
\* as many as it was given, each with the key of the line it was given at that position;
\* a line that neither starts with Icon= nor is an Exec= line containing
\* .AppImage is returned as it was, so no Icon= or Exec= line is injected.
C4_FixPassFrame ==
    (result.op = "fix_pass" /\ ~result.raised) =>
        /\ Len(result.lines) = Len(arg_lines)
        /\ \A i \in 1..Len(arg_lines) :
              /\ IsIconLine(result.lines[i]) <=> IsIconLine(arg_lines[i])
              /\ StartsWith(result.lines[i], <<EXEC>>)
                    <=> StartsWith(arg_lines[i], <<EXEC>>)
              /\ (~IsIconLine(arg_lines[i]) /\ ~IsExecAppImageLine(arg_lines[i]))
                    => result.lines[i] = arg_lines[i]

C4_Witness ==
    /\ result.op = "fix_pass"
    /\ result.icon_modified /\ result.sandbox_modified
    /\ \E i \in 1..Len(arg_lines) :
          /\ ~IsIconLine(arg_lines[i]) /\ ~IsExecAppImageLine(arg_lines[i])
          /\ HasAtom(arg_lines[i], EXT)

\* C5: when --no-sandbox occurs in any line, whatever the line and the
\* position, add_no_sandbox_flag returns the lines it was given and
\* modified = False.
C5_FlagPresentNoChange ==
    (result.op = "add_no_sandbox_flag" /\ FilePresentsFlag(arg_lines)) =>
        /\ result.lines = arg_lines
        /\ result.sandbox_modified = FALSE

\* the flag sits in a line of another key, after an Exec= line that the rule
\* would otherwise rewrite
C5_Witness ==
    /\ result.op = "add_no_sandbox_flag"
    /\ \E i, j \in 1..Len(arg_lines) :
          /\ i < j
          /\ IsExecAppImageLine(arg_lines[i]) /\ ~HasAtom(arg_lines[i], FLAG)
          /\ add_flag_line(arg_lines[i]) # arg_lines[i]
          /\ ~StartsWith(arg_lines[j], <<EXEC>>) /\ HasAtom(arg_lines[j], FLAG)

\* C6 as claimed: with the flag absent, only the first Exec= line containing
\* .AppImage is modified; every other line is returned unchanged.
C6_OnlyFirstExecLineTouched ==
    (result.op = "add_no_sandbox_flag" /\ ~FilePresentsFlag(arg_lines)) =>
        LET execs == {i \in 1..Len(arg_lines) : IsExecAppImageLine(arg_lines[i])}
        IN  \A i \in 1..Len(arg_lines) :
                (execs = {} \/ i # (CHOOSE k \in execs : \A j \in execs : k <= j))
                    => result.lines[i] = arg_lines[i]

\* l without every " --no-sandbox" it holds
RECURSIVE WithoutFlags(_)
WithoutFlags(l) ==
    IF l = <<>> THEN <<>>
    ELSE IF Len(l) >= 2 /\ l[1] = SP /\ l[2] = FLAG
         THEN WithoutFlags(SubSeq(l, 3, Len(l)))
         ELSE <<l[1]>> \o WithoutFlags(Tail(l))

\* .AppImage at position k of l is followed by a blank or ends the line
FlagSlot(l, k) == l[k] = EXT /\ (k = Len(l) \/ IsSpace(l[k + 1]))

\* C6 as amended: with the flag absent, every line that starts with Exec= and
\* contains .AppImage gets " --no-sandbox" after each .AppImage that a blank
\* or the end of the line follows, and nothing else in it changes (the later
\* Exec= lines too, not only the first); every other line is returned unchanged.
C6_EveryExecLineFlagged ==
    (result.op = "add_no_sandbox_flag" /\ ~FilePresentsFlag(arg_lines)) =>
        /\ Len(result.lines) = Len(arg_lines)
        /\ \A i \in 1..Len(arg_lines) :
              LET in == arg_lines[i]
                  out == result.lines[i]
              IN  IF IsExecAppImageLine(in)
                  THEN /\ WithoutFlags(out) = in
                       /\ \A k \in 1..Len(out) :
                             /\ FlagSlot(out, k) =>
                                   /\ k + 2 <= Len(out)
                                   /\ out[k + 1] = SP /\ out[k + 2] = FLAG
                             /\ out[k] = FLAG => (k >= 3 /\ out[k - 2] = EXT)
                  ELSE out = in

\* two Exec= lines were modified in one call
C6_Witness ==
    /\ result.op = "add_no_sandbox_flag"
    /\ \E i, j \in 1..Len(arg_lines) :
          /\ i < j
          /\ result.lines[i] # arg_lines[i]
          /\ result.lines[j] # arg_lines[j]

\* C7 as claimed: the lines fix_icon_references returns have, at the position
\* of every Icon= line, exactly Icon=<icon_name> and a newline.
C7_IconLinesExact ==
    (result.op = "fix_icon_references" /\ ~result.raised) =>
        \A i \in 1..Len(arg_lines) :
            IsIconLine(arg_lines[i])
                => result.lines[i] = <<ICON>> \o arg_icon \o <<NL>>

\* C8 as claimed: when needs_fixing(file, icon_name, True) is false for a
\* file with these lines, the icon rule followed by the sandbox rule, when
\* they return, return the lines unchanged with both flags False.
C8_NoFixNeededIsNoOp ==
    (/\ result.op = "fix_pass" /\ ~result.raised
     /\ ~needs_fixing_lines(arg_lines, arg_icon, TRUE)) =>
        /\ result.lines = arg_lines
        /\ ~result.icon_modified
        /\ ~result.sandbox_modified


\* ----------------------------------- _is_appimage_file (core.py 554-562)

\* b"\x7fELF\x02\x01\x01", the bytes the code compares with
MAGIC == <<127, 69, 76, 70, 2, 1, 1>>

\* f.read(8): the first eight bytes of the file, fewer when it is shorter
read8(bytes) == SubSeq(bytes, 1, IF Len(bytes) < 8 THEN Len(bytes) ELSE 8)

\* _is_appimage_file(file_path): any error of open or read gives False
is_appimage_file(bytes, state) ==
    IF state # "ok" THEN FALSE ELSE read8(bytes) = MAGIC

\* Bytes that follow the start of a file, none of them a byte of MAGIC
MaxTailBytes == 2
TailBytes == {0, 9, 65}

\* Files that start with some or all of the bytes of MAGIC
MagicFiles ==
    [content : { SubSeq(MAGIC, 1, n) \o t :
                    n \in 0..Len(MAGIC), t \in SeqsUpTo(TailBytes, MaxTailBytes) },
     fstate : {"ok", "unreadable"},
     name : {<<"app", EXT>>}]
    \cup {[content |-> <<>>, fstate |-> "missing", name |-> <<"app", EXT>>]}

InitMagic ==
    /\ ver_file \in MagicFiles
    /\ ver_ret = NoCall
    /\ desktop_files = <<>> /\ binaries = <<>> /\ tool_env = NoTools
    /\ run_ret = NoRun
    /\ RulesIdle /\ FilesIdle /\ DbIdle

\* _is_appimage_file(file_path)
CallIsAppimageFile ==
    /\ ver_ret = NoCall
    /\ ver_ret' = [op |-> "_is_appimage_file",
                   ret |-> is_appimage_file(ver_file.content, ver_file.fstate)]
    /\ UNCHANGED <<ver_file, desktop_files, binaries, tool_env, run_ret,
                   rule_vars, file_vars, db_vars>>

NextMagic == CallIsAppimageFile

SpecMagic == InitMagic /\ [][NextMagic]_vars


\* ------------------- two fix_desktop_file calls at once (core.py 365-418)

\* The two calls; nothing in the code keeps a second call from starting
PassIds == {"first", "second"}

\* Desktop files the two calls are made on: one that both rules fix, one
\* whose Icon= line alone is fixed, one that needs no fix, one without
\* Name=, one whose name makes the icon rule raise
ConcFiles ==
    { <<NAME, "App", NL, ICON, KIT, "z", NL, EXEC, "z", EXT, NL>>,
      <<NAME, "App", NL, ICON, "z", NL, EXEC, "z", EXT, SP, FLAG, NL>>,
      <<NAME, "App", NL, ICON, "z", NL>>,
      <<NAME, "App", NL, ICON, "app", NL, EXEC, "z", EXT, SP, FLAG, NL>>,
      <<ICON, "z", NL, EXEC, "z", EXT, NL>>,
      <<NAME, ESC, NL, ICON, "z", NL, EXEC, "z", EXT, NL>> }

\* a call that has not begun
PassStart ==
    [pc |-> "check", icon |-> <<>>, lines |-> <<>>, ret |-> FALSE, raised |-> FALSE]

InitConc ==
    /\ desktop \in ConcFiles /\ fstate = "ok"
    /\ bak_ok \in BOOLEAN
    /\ write_mode \in {"ok", "denied", "truncated"}
    /\ backup \in {NoFile, StaleBackup}
    /\ hist = <<>>
    /\ passes = [i \in PassIds |-> PassStart]
    /\ RulesIdle /\ DbIdle /\ RunIdle

\* Lines 367-383: the file exists, it has a name, needs_fixing says yes
PassCheck(i) ==
    /\ passes[i].pc = "check"
    /\ LET app_name == extract_app_name(desktop, fstate)
           config == get_app_config(app_name)
           go == /\ fstate # "missing"
                 /\ app_name # None /\ app_name # <<>>
                 /\ needs_fixing(desktop, fstate, config.icon, config.needs_no_sandbox)
       IN  passes' = [passes EXCEPT ![i] =
                         IF go THEN [@ EXCEPT !.pc = "backup", !.icon = config.icon]
                         ELSE [@ EXCEPT !.pc = "done"]]
    /\ hist' = Append(hist, [pass |-> i, before |-> desktop, bak_before |-> backup])
    /\ UNCHANGED <<desktop, fstate, backup, bak_ok, write_mode,
                   rule_vars, db_vars, run_vars>>

\* Lines 386-395: shutil.copy2(file_path, backup_path)
PassBackup(i) ==
    /\ passes[i].pc = "backup"
    /\ IF bak_ok
       THEN /\ backup' = desktop
            /\ passes' = [passes EXCEPT ![i].pc = "reread"]
       ELSE /\ backup' = backup
            /\ passes' = [passes EXCEPT ![i].pc = "done"]
    /\ UNCHANGED <<desktop, fstate, bak_ok, write_mode, hist,
                   rule_vars, db_vars, run_vars>>

\* Lines 398-410: read the file again and apply the two rules
PassReread(i) ==
    /\ passes[i].pc = "reread"
    /\ LET lines == read_desktop_file(desktop, fstate)
           fixed == apply_rules(lines, passes[i].icon, TRUE)
       IN  passes' = [passes EXCEPT ![i] =
                         IF lines = <<>> THEN [@ EXCEPT !.pc = "done"]
                         ELSE IF fixed.raised
                              THEN [@ EXCEPT !.pc = "done", !.raised = TRUE]
                         ELSE IF fixed.icon_modified \/ fixed.sandbox_modified
                              THEN [@ EXCEPT !.pc = "write", !.lines = fixed.lines]
                              ELSE [@ EXCEPT !.pc = "done"]]
    /\ UNCHANGED <<desktop, fstate, backup, bak_ok, write_mode, hist,
                   rule_vars, db_vars, run_vars>>

\* Lines 413-416: write_desktop_file(file_path, lines)
PassWrite(i) ==
    /\ passes[i].pc = "write"
    /\ \E written \in {write_desktop_file(desktop, passes[i].lines, write_mode)} :
          /\ desktop' = written.content
          /\ passes' = [passes EXCEPT ![i] = [@ EXCEPT !.pc = "done",
                                                       !.ret = written.ok]]
    /\ UNCHANGED <<fstate, backup, bak_ok, write_mode, hist,
                   rule_vars, db_vars, run_vars>>

NextConc ==
    \E i \in PassIds :
        \/ PassCheck(i)
        \/ PassBackup(i)
        \/ PassReread(i)
        \/ PassWrite(i)

SpecConc == InitConc /\ [][NextConc]_vars


\* ------------------------------------------ claims on fix_desktop_file

\* the desktop file and the backup after call k
DesktopAfter(k) == IF k < Len(hist) THEN hist[k + 1].before ELSE desktop
BackupAfter(k) == IF k < Len(hist) THEN hist[k + 1].bak_before ELSE backup

\* the events of a call that put new content in the desktop file
Rewrites(io) == \E i \in 1..Len(io) : io[i] \in {"write_ok", "write_truncated"}
WriteEvents == {"write_ok", "write_denied", "write_truncated"}

\* C1 as claimed: a second fix_desktop_file call, made with nothing changed
\* outside since the first, returns False, does not rewrite the desktop file,
\* and leaves it with the content the first call left.
C1_SecondFixIsNoOp ==
    \A k \in 2..Len(hist) :
        /\ ~hist[k].raised /\ hist[k].ret = FALSE
        /\ ~Rewrites(hist[k].io)
        /\ DesktopAfter(k) = DesktopAfter(1)

\* C2 as claimed: for a readable file with a Name= line, backup and write
\* not failing, needs_fixing is false exactly when the call writes nothing.
C2_NeedsFixingIffWrites ==
    \A k \in 1..Len(hist) :
        LET app_name == extract_app_name(hist[k].before, fstate)
            config == get_app_config(app_name)
            wrote == \E i \in 1..Len(hist[k].io) : hist[k].io[i] \in WriteEvents
        IN  (/\ fstate = "ok" /\ bak_ok /\ write_mode = "ok"
             /\ app_name # None /\ app_name # <<>>)
            => (needs_fixing(hist[k].before, fstate, config.icon, TRUE) <=> wrote)

\* C3: in a call, every write to the desktop file comes after a successful
\* copy to <path>.bak, which then holds the content the file had when the
\* call began; when the copy fails the desktop file keeps its content and
\* the call returns False.
C3_BackupBeforeWrite ==
    \A k \in 1..Len(hist) :
        LET io == hist[k].io
        IN  /\ \A j \in 1..Len(io) :
                  io[j] \in WriteEvents =>
                      /\ \E i \in 1..(j - 1) : io[i] = "copy_ok"
                      /\ BackupAfter(k) = hist[k].before
            /\ DesktopAfter(k) # hist[k].before =>
                  /\ \E i \in 1..Len(io) : io[i] = "copy_ok"
                  /\ BackupAfter(k) = hist[k].before
            /\ (\E i \in 1..Len(io) : io[i] = "copy_failed") =>
                  /\ DesktopAfter(k) = hist[k].before
                  /\ hist[k].ret = FALSE
                  /\ \A j \in 1..Len(io) : io[j] \notin WriteEvents

\* a call replaced an older backup by a copy of the file and then wrote
C3_Witness ==
    /\ Len(hist) >= 1
    /\ hist[1].bak_before = StaleBackup
    /\ hist[1].io = <<"copy_ok", "write_ok">>
    /\ BackupAfter(1) = hist[1].before
    /\ DesktopAfter(1) # hist[1].before


\* ------------------------------------------------ claims on the registry

\* C9: cleanup_orphaned called with an empty list of live paths removes no
\* record and returns 0, whatever the registry holds.
C9_EmptyListRemovesNothing ==
    (db_ret.op = "cleanup_orphaned" /\ db_ret.paths = <<>>) =>
        /\ db_ret.ret = 0
        /\ ~db_ret.raised
        /\ registry = db_ret.before

\* the call was made on a registry of two records, the storage working
C9_Witness ==
    /\ db_ret.op = "cleanup_orphaned" /\ db_ret.paths = <<>>
    /\ db_ok
    /\ Cardinality(db_ret.before) = 2

\* C10: cleanup_orphaned called with live paths (and the DELETE executed)
\* deletes exactly the records whose file_path is not one of them, leaves
\* the others as they were and returns the number of records deleted.
C10_DeletesExactlyOrphans ==
    (db_ret.op = "cleanup_orphaned" /\ db_ret.paths # <<>> /\ ~db_ret.raised) =>
        LET live == {str_path(db_ret.paths[i]) : i \in 1..Len(db_ret.paths)}
        IN  /\ registry \subseteq db_ret.before
            /\ \A r \in db_ret.before : r \in registry <=> r.file_path \in live
            /\ db_ret.ret = Cardinality(db_ret.before) - Cardinality(registry)

\* of two records, the one whose path is not live was deleted
C10_Witness ==
    /\ db_ret.op = "cleanup_orphaned"
    /\ db_ret.paths = << <<"a", "app1.AppImage">> >>
    /\ Cardinality(db_ret.before) = 2
    /\ db_ret.ret = 1
    /\ \A r \in registry : r.file_path = "/a/app1.AppImage"
    /\ Cardinality(registry) = 1

\* C11: the registry never holds two records of one file_path; an upsert for
\* a file_path already present leaves the number of records as it was, also
\* when the checksum differs from the stored one, and the record of that
\* file_path then carries the new checksum.
C11_OneRecordPerPath ==
    /\ \A r1, r2 \in registry : r1.file_path = r2.file_path => r1 = r2
    /\ (/\ db_ret.op = "add_or_update_appimage"
        /\ \E r \in db_ret.before : r.file_path = db_ret.data.file_path)
       => /\ Cardinality(registry) = Cardinality(db_ret.before)
          /\ db_ret.ret =>
                \A r \in registry :
                    r.file_path = db_ret.data.file_path
                        => r.checksum = db_ret.data.checksum

\* an upsert replaced the record of its file_path by one of another checksum,
\* in a registry that holds a second record
C11_Witness ==
    /\ db_ret.op = "add_or_update_appimage" /\ db_ret.ret
    /\ Cardinality(db_ret.before) = 2
    /\ \E r \in db_ret.before :
          /\ r.file_path = db_ret.data.file_path
          /\ r.checksum # db_ret.data.checksum
          /\ r \notin registry

\* C12: add_or_update_appimage never raises; on a storage fault it returns
\* False; whenever it returns False the registry is as it was; whenever it
\* returns True the registry holds a record with the fields handed in.
C12_UpsertNeverRaises ==
    db_ret.op = "add_or_update_appimage" =>
        /\ ~db_ret.raised
        /\ ~db_ret.storage_ok => db_ret.ret = FALSE
        /\ db_ret.ret = FALSE => registry = db_ret.before
        /\ db_ret.ret = TRUE =>
              \E r \in registry :
                  /\ r.name = db_ret.data.name
                  /\ r.version = db_ret.data.version
                  /\ r.checksum = db_ret.data.checksum
                  /\ r.file_path = db_ret.data.file_path
                  /\ r.desktop_file = db_ret.data.desktop_file
                  /\ r.appimage_id = db_ret.data.appimage_id

\* the storage failed under an upsert made on a registry that holds a record
C12_Witness ==
    /\ db_ret.op = "add_or_update_appimage"
    /\ ~db_ret.storage_ok
    /\ db_ret.ret = FALSE
    /\ db_ret.before # {}

\* --------------------------------- claims on the registry sync and run()

\* the upserts a pass made for a binary whose record was already there with
\* the same name, version, checksum, file_path and desktop file
UnchangedUpserts ==
    {k \in 1..Len(run_ret.log) :
        /\ run_ret.log[k].ev = "upsert" /\ run_ret.log[k].ok
        /\ \E r \in run_ret.before :
              /\ r.checksum = run_ret.log[k].data.checksum
              /\ r = get_by_checksum(run_ret.before, r.checksum)
              /\ r.name = run_ret.log[k].data.name
              /\ r.version = run_ret.log[k].data.version
              /\ r.file_path = run_ret.log[k].data.file_path
              /\ r.desktop_file = run_ret.log[k].data.desktop_file}

\* C13: when a binary's bytes, path, name and version are as they were, a
\* registry sync that returns leaves the record get_by_checksum gives for
\* the binary's hash as it was, id, created_at and last_scan included.
C13_RescanKeepsRecord ==
    (run_ret.op # "none" /\ ~run_ret.raised) =>
        \A k \in UnchangedUpserts :
            /\ \E r \in registry : r.checksum = run_ret.log[k].data.checksum
            /\ get_by_checksum(registry, run_ret.log[k].data.checksum)
                  = get_by_checksum(run_ret.before, run_ret.log[k].data.checksum)

\* the file_path of the existing binaries that the desktop files of the last
\* pass referenced
LivePaths ==
    {str_path(p) : p \in
        {q \in DOMAIN run_ret.bins :
            \E i \in 1..Len(run_ret.apps_before) :
                get_appimage_path_from_desktop(run_ret.apps_before[i].content,
                                               run_ret.apps_before[i].fstate).path = q}}

Events(ev) == {k \in 1..Len(run_ret.log) : run_ret.log[k].ev = ev}

\* the fix_desktop_file calls of the last run() that returned True
FixedEvents == {k \in Events("fix") : run_ret.log[k].ok}

\* C15: run() always returns a result record with counts and never lets an
\* exception out, whatever fault occurs while the registry is synced or a
\* file is fixed; every desktop file is still processed.
C15_RunAlwaysReturns ==
    run_ret.op = "run" =>
        /\ ~run_ret.raised
        /\ {"files_found", "files_fixed", "success"} \subseteq run_ret.fields
        /\ Cardinality(Events("fix")) = Len(run_ret.apps_before)

\* C16: in run(), update_desktop_database and update_icon_cache are invoked,
\* once each and after every desktop file has been processed, if and only if
\* a file was reported fixed; when none was, neither is invoked and
\* changes_made is not true.
C16_RefreshIffFixed ==
    run_ret.op = "run" =>
        /\ FixedEvents # {} <=>
              /\ Cardinality(Events("update_desktop_database")) = 1
              /\ Cardinality(Events("update_icon_cache")) = 1
              /\ Cardinality(Events("fix")) = Len(run_ret.apps_before)
              /\ \A k \in Events("update_desktop_database") \cup Events("update_icon_cache") :
                    \A j \in Events("fix") : j < k
        /\ FixedEvents = {} =>
              /\ Events("update_desktop_database") = {}
              /\ Events("update_icon_cache") = {}
              /\ ~run_ret.changes_made

\* ------------------------------- claims on fix_desktop_file, continued

\* C17: a desktop file from which no application name can be extracted (no
\* Name= line, a blank name, an unreadable or empty file) is skipped by
\* fix_desktop_file: the call returns False, makes no backup and does not
\* write the file.
C17_NoNameIsSkipped ==
    \A k \in 1..Len(hist) :
        extract_app_name(hist[k].before, fstate) \in {None, <<>>} =>
            /\ ~hist[k].raised
            /\ hist[k].ret = FALSE
            /\ hist[k].io = <<>>
            /\ DesktopAfter(k) = hist[k].before
            /\ BackupAfter(k) = hist[k].bak_before

\* fix_desktop_file was called on a readable file without Name= line that has
\* an Icon= line with the kit prefix and an Exec= line without the flag,
\* where copy and write would have succeeded, and there is no backup
C17_Witness ==
    /\ Len(hist) >= 1
    /\ fstate = "ok" /\ bak_ok /\ write_mode = "ok"
    /\ extract_app_name(hist[1].before, fstate) = None
    /\ hist[1].before = <<ICON, KIT, "z", NL, EXEC, "z", EXT, NL>>
    /\ hist[1].bak_before = NoFile
    /\ backup = NoFile

\* --------------------------------------- claims on the version functions

\* C18: extract_desktop_version returns the value of the first
\* X-AppImage-Version= line when there is one; otherwise the first three-part
\* dotted number of the file's own name; otherwise the parenthesized
\* three-part dotted number of the Name= value, else a parenthesized single
\* integer of it; otherwise None.  A later source is not used when an
\* earlier one yields a value.
C18_DesktopVersionPrecedence ==
    ver_ret.op = "extract_desktop_version" =>
        LET lines == read_desktop_file(ver_file.content, ver_file.fstate)
            fields == {i \in 1..Len(lines) : lines[i][1] = XVER}
            app_name == extract_app_name(ver_file.content, ver_file.fstate)
            named == app_name # None /\ app_name # <<>>
        IN  /\ fields # {} =>
                  \E i \in fields :
                      /\ \A j \in fields : i <= j
                      /\ ver_ret.ret = Strip(Tail(lines[i]))
            /\ (fields = {} /\ search_version(ver_file.name) # None) =>
                  ver_ret.ret = search_version(ver_file.name)
            /\ (fields = {} /\ search_version(ver_file.name) = None /\ named
                  /\ search_paren_version(app_name) # None) =>
                  ver_ret.ret = search_paren_version(app_name)
            /\ (fields = {} /\ search_version(ver_file.name) = None /\ named
                  /\ search_paren_version(app_name) = None) =>
                  ver_ret.ret = search_paren_number(app_name)
            /\ (fields = {} /\ search_version(ver_file.name) = None /\ ~named) =>
                  ver_ret.ret = None

\* the three sources gave three different versions and the field won
C18_Witness ==
    /\ ver_ret.op = "extract_desktop_version"
    /\ ver_file.fstate = "ok"
    /\ ver_file.content =
          <<NAME, "App", SP, "(", "1", DOT, "2", DOT, "2", ")", NL,
            XVER, "1", DOT, "2", DOT, "1", NL>>
    /\ search_version(ver_file.name) = <<"2", DOT, "1", DOT, "2">>
    /\ ver_ret.ret = <<"1", DOT, "2", DOT, "1">>

\* C19: extract_appimage_version returns the three-part version of the
\* binary's file name without running a tool; when the name has none it runs
\* appimagetool, binwalk and file, in that order, and stops at the first
\* that yields a version; a tool that is missing, times out or exits
\* non-zero yields nothing and is not run again; the value is None when all
\* fail.  The AppImage is never the program run.
C19_NameFirstThenToolsInOrder ==
    ver_ret.op = "extract_appimage_version" =>
        LET name == path_name(ver_ret.token)
            there == Path(ver_ret.token) \in DOMAIN binaries
            ran == ver_ret.ran
            failed(t) == \/ tool_env[t].kind \in {"missing", "timeout"}
                         \/ tool_env[t].returncode # 0
        IN  /\ \A i \in 1..Len(ran) :
                  /\ ran[i] = ToolOrder[i]
                  /\ ran[i] # Concat(ver_ret.token)
                  /\ ran[i] # Concat(name)
            /\ Len(ran) <= Len(ToolOrder)
            /\ (there /\ search_version(name) # None) =>
                  ver_ret.ret = search_version(name) /\ ran = <<>>
            /\ (there /\ search_version(name) = None) =>
                  /\ ran # <<>>
                  /\ \A i \in 1..(Len(ran) - 1) : tool_version(tool_env[ran[i]]) = None
                  /\ ver_ret.ret = tool_version(tool_env[ran[Len(ran)]])
                  /\ ver_ret.ret = None => ran = ToolOrder
                  /\ \A i \in 1..Len(ran) :
                        failed(ran[i]) => (i < Len(ran) \/ ver_ret.ret = None)
                  /\ (\A i \in 1..Len(ToolOrder) : failed(ToolOrder[i])) =>
                        ver_ret.ret = None

\* the name has no version, appimagetool timed out, binwalk exited with 1
\* after printing a version, and the version came from file
C19_Witness ==
    /\ ver_ret.op = "extract_appimage_version"
    /\ ver_ret.token = AppBinary
    /\ Path(AppBinary) \in DOMAIN binaries
    /\ tool_env["appimagetool"].kind = "timeout"
    /\ tool_env["binwalk"].kind = "exit" /\ tool_env["binwalk"].returncode = 1
    /\ tool_env["binwalk"].stdout # <<>>
    /\ ver_ret.ran = ToolOrder
    /\ ver_ret.ret = <<"2", DOT, "1", DOT, "2">>

\* C20: compare_versions reports no_desktop_version when the desktop file
\* yields no version; otherwise appimage_not_found when the Exec target is
\* absent or not on disk; otherwise no_appimage_version when the binary
\* yields no version; otherwise match when the two versions are equal and
\* mismatch when they are not; versions_match is true exactly when the
\* status is match.
C20_CompareStatus ==
    ver_ret.op = "compare_versions" =>
        LET lines == read_desktop_file(ver_file.content, ver_file.fstate)
            dv == extract_desktop_version(ver_file.content, ver_file.fstate,
                                          ver_file.name)
            targets == {i \in 1..Len(lines) :
                           /\ lines[i][1] = EXEC
                           /\ Strip(Tail(lines[i])) # <<>>
                           /\ LET w == first_word(Strip(Tail(lines[i])))
                              IN  w[Len(w)] = EXT}
            token == first_word(Strip(Tail(
                         lines[CHOOSE i \in targets : \A j \in targets : i <= j])))
            found == targets # {} /\ Path(token) \in DOMAIN binaries
            bv == extract_appimage_version(path_name(token), TRUE, tool_env).ret
        IN  /\ ~ver_ret.raised
            /\ ver_ret.status =
                  IF dv = None \/ dv = <<>> THEN "no_desktop_version"
                  ELSE IF ~found THEN "appimage_not_found"
                  ELSE IF bv = None THEN "no_appimage_version"
                  ELSE IF dv = bv THEN "match"
                  ELSE "mismatch"
            /\ ver_ret.versions_match <=> ver_ret.status = "match"

\* C22: get_appimage_path_from_desktop takes the first whitespace-delimited
\* token of the first Exec= line and returns it only when it ends in
\* .AppImage; for any other Exec value and without Exec= line it returns
\* None, and it raises no error.
C22_FirstExecTokenOrNone ==
    ver_ret.op = "get_appimage_path_from_desktop" =>
        LET lines == read_desktop_file(ver_file.content, ver_file.fstate)
            execs == {i \in 1..Len(lines) : lines[i][1] = EXEC}
            value == Strip(Tail(lines[CHOOSE i \in execs : \A j \in execs : i <= j]))
        IN  /\ ~ver_ret.raised
            /\ ver_ret.token =
                  IF execs # {} /\ value # <<>>
                        /\ first_word(value)[Len(first_word(value))] = EXT
                  THEN first_word(value)
                  ELSE None

\* C21: compare_versions_with_db returns, and its status is
\* appimage_not_found when the desktop file names no binary that is on disk,
\* else no_version when the version of the desktop file or the version of the
\* registry row found by the binary's checksum is absent, else match or
\* mismatch by equality of the two, versions_match being true on match only.
C21_DbCompareStatus ==
    ver_ret.op = "compare_versions_with_db" =>
        LET p == get_appimage_path_from_desktop(ver_file.content, ver_file.fstate)
            desktop_version == extract_desktop_version(ver_file.content,
                                                       ver_file.fstate, ver_file.name)
            hit == {q \in registry :
                       q.checksum = calculate_checksum(binaries, p.path).checksum}
            appimage_version ==
                IF hit = {} THEN NULL
                ELSE (CHOOSE q \in hit : \A o \in hit : q.id <= o.id).version
        IN  /\ ~ver_ret.raised
            /\ ver_ret.status =
                  IF p.raised \/ p.path = None \/ ~exists(binaries, p.path)
                  THEN "appimage_not_found"
                  ELSE IF desktop_version = None \/ appimage_version = NULL
                       THEN "no_version"
                  ELSE IF Concat(desktop_version) = appimage_version
                       THEN "match" ELSE "mismatch"
            /\ ver_ret.versions_match <=> ver_ret.status = "match"

\* C29: every result compare_versions_with_db returns has the keys
\* desktop_version, appimage_version, versions_match and status.
C29_ResultHasFourFields ==
    (ver_ret.op = "compare_versions_with_db" /\ ~ver_ret.raised) =>
        {"desktop_version", "appimage_version", "versions_match", "status"}
            \subseteq ver_ret.fields

\* C23: fix_desktop_file returns True only when one of the two rules changed
\* a line of the file and the write of the corrected lines succeeded; a call
\* whose write fails returns False.
C23_TrueOnlyAfterChangeAndWrite ==
    \A k \in 1..Len(hist) :
        LET io == hist[k].io
            config == get_app_config(extract_app_name(hist[k].before, fstate))
            fixed == apply_rules(read_desktop_file(hist[k].before, fstate),
                                 config.icon, config.needs_no_sandbox)
        IN  /\ hist[k].ret =>
                  /\ ~fixed.raised
                  /\ fixed.icon_modified \/ fixed.sandbox_modified
                  /\ io # <<>> /\ io[Len(io)] = "write_ok"
                  /\ DesktopAfter(k) = Join(fixed.lines)
            /\ (\E i \in 1..Len(io) : io[i] \in {"write_denied", "write_truncated"})
                  => ~hist[k].ret

\* a rule changed a line and the write failed: the call returned False
C23_Witness ==
    /\ Len(hist) >= 1
    /\ hist[1].io = <<"copy_ok", "write_denied">>
    /\ ~hist[1].ret /\ ~hist[1].raised
    /\ DesktopAfter(1) = hist[1].before

\* C24: _is_appimage_file returns True for every readable file whose content
\* begins with the seven signature bytes, whatever its length, and False for
\* a file that does not begin with them or cannot be read.
C24_TrueIffStartsWithMagic ==
    ver_ret.op = "_is_appimage_file" =>
        (ver_ret.ret <=>
            /\ ver_file.fstate = "ok"
            /\ Len(ver_file.content) >= Len(MAGIC)
            /\ SubSeq(ver_file.content, 1, Len(MAGIC)) = MAGIC)

\* the positions of l where .AppImage is followed by " --no-sandbox"
Flagged(l) == {k \in 1..(Len(l) - 2) : l[k] = EXT /\ l[k + 1] = SP /\ l[k + 2] = FLAG}

\* the positions of l where .AppImage is followed by a blank or ends the line
FlagSlots(l) == {k \in 1..Len(l) : FlagSlot(l, k)}

\* C25 as claimed: for lines without --no-sandbox that have an Exec= line
\* containing .AppImage, add_no_sandbox_flag reports modified = True and every
\* such line comes back with " --no-sandbox" right after .AppImage, whatever
\* follows .AppImage.
C25_FlagWhateverFollows ==
    (/\ result.op = "add_no_sandbox_flag"
     /\ ~FilePresentsFlag(arg_lines)
     /\ \E i \in 1..Len(arg_lines) : IsExecAppImageLine(arg_lines[i])) =>
        /\ result.sandbox_modified
        /\ \A i \in 1..Len(arg_lines) :
              IsExecAppImageLine(arg_lines[i]) => Flagged(result.lines[i]) # {}

\* C25 as amended: for lines without --no-sandbox, add_no_sandbox_flag reports
\* modified = True exactly when some Exec= line has a .AppImage that is
\* followed by whitespace, ends the string or stands before the final newline;
\* such a line comes back changed, with " --no-sandbox" right after each such
\* .AppImage; an Exec= line whose .AppImage is followed by any other
\* character (a closing quote) comes back as it was.
C25_FlagBeforeBlankOrEnd ==
    (result.op = "add_no_sandbox_flag" /\ ~FilePresentsFlag(arg_lines)) =>
        LET hit == {i \in 1..Len(arg_lines) :
                       /\ IsExecAppImageLine(arg_lines[i])
                       /\ FlagSlots(arg_lines[i]) # {}}
        IN  /\ result.sandbox_modified <=> hit # {}
            /\ \A i \in 1..Len(arg_lines) :
                  IF i \in hit
                  THEN /\ result.lines[i] # arg_lines[i]
                       /\ Cardinality(Flagged(result.lines[i]))
                             = Cardinality(FlagSlots(arg_lines[i]))
                  ELSE result.lines[i] = arg_lines[i]

\* one call flagged a .AppImage that ends the string and left an Exec= line
\* with a quoted path as it was
C25_Witness ==
    /\ result.op = "add_no_sandbox_flag"
    /\ result.sandbox_modified
    /\ \E i, j \in 1..Len(arg_lines) :
          /\ IsExecAppImageLine(arg_lines[i]) /\ FlagSlots(arg_lines[i]) = {}
          /\ result.lines[i] = arg_lines[i]
          /\ arg_lines[j][Len(arg_lines[j])] = EXT
          /\ result.lines[j] = arg_lines[j] \o <<SP, FLAG>>

\* C26: after a fix_desktop_file call that returned True, needs_fixing on the
\* file it left (same icon name, the flag required) is false, and the next
\* call makes neither a backup copy nor a write.
C26_FixedNeedsNoFix ==
    \A k \in 1..Len(hist) :
        hist[k].ret =>
            LET config == get_app_config(extract_app_name(hist[k].before, fstate))
            IN  /\ ~needs_fixing(DesktopAfter(k), fstate, config.icon, TRUE)
                /\ k < Len(hist) => hist[k + 1].io = <<>>

\* C27: once a call has rewritten the desktop file, the .bak file keeps the
\* content the file had before that rewrite through every later call.
C27_BackupKeepsPreFixContent ==
    \A k \in 1..Len(hist) :
        (\E i \in 1..Len(hist[k].io) : hist[k].io[i] = "write_ok") =>
            \A j \in k..Len(hist) : BackupAfter(j) = hist[k].before

\* C28: after a registry sync that returns, for every binary path the sync
\* upserted, get_by_checksum of the binary's checksum gives the record whose
\* file_path is that path, also when two paths hold the same bytes.
C28_LookupGivesOwnRecord ==
    (run_ret.op # "none" /\ ~run_ret.raised) =>
        \A k \in 1..Len(run_ret.log) :
            (run_ret.log[k].ev = "upsert" /\ run_ret.log[k].ok) =>
                /\ \E r \in registry : r.checksum = run_ret.log[k].data.checksum
                /\ get_by_checksum(registry, run_ret.log[k].data.checksum).file_path
                      = run_ret.log[k].data.file_path

\* C30: whatever the interleaving of the steps of two fix_desktop_file calls
\* on one desktop file, when both have finished and the file was rewritten,
\* the .bak file holds the content the desktop file had before the calls.
C30_BackupHoldsOriginal ==
    (/\ DOMAIN passes = PassIds
     /\ \A i \in PassIds : passes[i].pc = "done"
     /\ \E i \in PassIds : passes[i].ret) =>
        backup = hist[1].before

=============================================================================
